---- MODULE Spec2Model ----
(***************************************************************************)
(* PTP client sync engine (src/src/ptpv1.ts, src/src/ptpv2.ts).            *)
(*                                                                         *)
(* One client instance, legacy (PTPv1) or modern (PTPv2), chosen at        *)
(* construction.  The state is the instance's private fields, the wall     *)
(* clock, the pending setImmediate callbacks, the Delay_Req sends whose    *)
(* completion callback has not run yet and the pending lock timeout.  One  *)
(* action per handler: the two socket 'message' handlers of each protocol, *)
(* the setImmediate callback, the send completion callback, the timeout    *)
(* callback and destroy().                                                 *)
(*                                                                         *)
(* Numbers: JavaScript numbers are doubles; the model uses integers and    *)
(* keeps every timestamp a multiple of a power of two large enough that    *)
(* the halving in the offset computation is exact within the bounds        *)
(* (HalvingExact states this).  The sum the offset computation forms is    *)
(* rounded to the spacing of the doubles at its magnitude, which is more   *)
(* than 1 ns from 2^53 ns on.  The 48-bit seconds field of PTPv2 is        *)
(* carried as one already combined number of at most 31 bits.              *)
(***************************************************************************)
EXTENDS Integers, Sequences, FiniteSets, TLC

VARIABLES
    env,                \* the network the client runs in (see Envs)
    proto,              \* "v1" (PTPv1Client) or "v2" (PTPv2Client)
    subdomainBuf,       \* v1: the configured subdomain, 16 NUL-padded bytes
    ptp_domain,         \* v2: the configured domain
    minSyncInterval,
    sync,
    syncTimeout,        \* NoTimer, or the wall time (ms) at which the timeout is due
    timers,             \* the runtime's pending timers, each the wall time it is due
    ptpMaster,
    ptpMasterAddress,
    subdomainsFound,    \* v1: Set<string>
    domainsFound,       \* v2: Set<number>
    t1, ts1, t2, ts2,
    offset,
    sync_seq,
    req_seq,
    lastSync,
    now,                \* Date.now(), ms; process.hrtime() advances with it
    immediates,         \* setImmediate callbacks scheduled and not yet run
    sends,              \* Delay_Req sends issued whose callback has not run yet
    destroyed,          \* destroy() was called: listeners removed, sockets closed
    crashed,            \* an exception left a callback uncaught
    emitted,            \* the notifications emitted by the last step, in order
    completions,        \* history: number of exchanges completed (Delay_Resp accepted)
    halfExact,          \* history: every halving so far had an even operand
    scenario,           \* history: progress of a run through the two exchange scenarios,
                        \* with the notifications counted on the way
    addr,               \* the interface address, four octets
    bound,              \* the sockets bound: << socket, port, address >>
    joined,             \* the memberships added: << socket, group, interface >>
    lastDelayReq,       \* << >>, or the one Delay_Req last handed to send()
    bindErrors,         \* the failed binds: << socket, "pending" or "delivered" >>
    call,               \* the call a codec run applies (see SpecCodec)
    result              \* what that call returned or threw

vars == << env, proto, subdomainBuf, ptp_domain, minSyncInterval, sync, syncTimeout, timers,
           ptpMaster, ptpMasterAddress, subdomainsFound, domainsFound,
           t1, ts1, t2, ts2, offset, sync_seq, req_seq, lastSync, now,
           immediates, sends, destroyed, crashed, emitted,
           completions, halfExact, scenario,
           addr, bound, joined, lastDelayReq, bindErrors, call, result >>

config == << env, proto, subdomainBuf, ptp_domain, minSyncInterval, addr, call, result >>

-----------------------------------------------------------------------------
(* Program constants *)

MSG_SYNC == 1
MSG_DELAY_REQ == 2
MSG_FOLLOW_UP == 3
MSG_DELAY_RESP == 4
FLAG_ASSIST == 8
V2_SYNC == 0
V2_FOLLOW_UP == 8
V2_DELAY_RESP == 9
V2_TWO_STEP == 512
V2_VERSION == 2
HEADER_LEN == 32
V1_TS_LEN == 40
V2_TS_LEN == 44
NS_PER_S == 1000000000
SEQ_MOD == 65536
MIN_INTERVAL == 125
DEFAULT_INTERVAL == 10000
MAX_DOMAIN == 127
SUBDOMAIN_MAX_LEN == 15
CTRL_DELAY_REQ == 1
V2_DELAY_REQ == 1
V1_REQ_LEN == 44
V2_REQ_LEN == 52
EVENT_PORT == 319
GENERAL_PORT == 320
MAX_DEDICATED == 3
PTP_MULTICAST == << 224, 0, 1, 129 >>
PTP_PRIMARY_MULTICAST == << 224, 0, 1, 129 >>
ptpDedicatedMulticastAddrs ==
    << << 224, 0, 1, 129 >>, << 224, 0, 1, 130 >>, << 224, 0, 1, 131 >>, << 224, 0, 1, 132 >> >>

-----------------------------------------------------------------------------
(* Bounds of the model *)

\* A run is explored up to this much work: clock ticks, Delay_Reqs scheduled,
\* exchanges completed and registry entries, counted together.
MaxWork == 4

\* Codec runs: normalizePtpTime is applied to seconds within MaxSeconds of
\* zero; ptp_delay_req() is called with up to MaxPending Delay_Reqs deferred,
\* on a client whose request sequence is zero or within ReqBefore of its wrap.
MaxSeconds == 1
MaxPending == 2
ReqBefore == 2

TickMs == MIN_INTERVAL    \* one tick of the wall clock, ms
StartNow == 2 * DEFAULT_INTERVAL
EndNow == StartNow + MaxWork * TickMs
NoTimer == 0
NoMaster == << >>       \* the empty string: no formatted identity equals it

\* Subdomain names as ASCII codes: "_DFLT", "_DFL", "_DFLTX".
NameDFLT == << 95, 68, 70, 76, 84 >>
NameDFL == << 95, 68, 70, 76 >>
NameDFLTX == << 95, 68, 70, 76, 84, 88 >>

-----------------------------------------------------------------------------
(* Helpers *)

CeilDiv(a, b) == IF a % b = 0 THEN a \div b ELSE (a \div b) + 1

\* normalizePtpTime carrying or borrowing one second at most.
normalizePtpTimeSingleCarry(s, ns) ==
    IF ns >= NS_PER_S
    THEN << s + 1, ns - NS_PER_S >>
    ELSE IF ns < 0
         THEN << s - 1, ns + NS_PER_S >>
         ELSE << s, ns >>

normalizePtpTime(s, ns) ==
    IF ns >= NS_PER_S
    THEN << s + (ns \div NS_PER_S), ns % NS_PER_S >>
    ELSE IF ns < 0
         THEN LET borrow == CeilDiv(-ns, NS_PER_S)
              IN << s - borrow, ns + borrow * NS_PER_S >>
         ELSE << s, ns >>

\* process.hrtime(): a monotonic [s, ns] reading that advances with the wall clock.
hrtime ==
    LET total == (now - StartNow) * 1000000
    IN << total \div NS_PER_S, total % NS_PER_S >>

getCorrectedTime(off) == normalizePtpTime(hrtime[1] - off[1], hrtime[2] - off[2])

ptp_time == normalizePtpTime(hrtime[1] - offset[1], hrtime[2] - offset[2])

encodeSubdomain(name) ==
    [i \in 1..16 |-> IF i <= Len(name) /\ i <= 15 THEN name[i] ELSE 0]

RECURSIVE StripNul(_)
StripNul(s) ==
    IF s # << >> /\ s[Len(s)] = 0 THEN StripNul(SubSeq(s, 1, Len(s) - 1)) ELSE s

decodeSubdomain(buffer) == StripNul(buffer.subdomain)

formatSourceId(buffer) == << buffer.sourceUuid, buffer.sourcePortId >>

formatSourceV2(buffer) == << buffer.clockIdentity, 0 >>

BitSet(flags, bit) == (flags \div bit) % 2 = 1

Half(x) == x \div 2

TruncDiv(a, b) == IF a >= 0 THEN a \div b ELSE -((-a) \div b)

\* Math.round of a number given in tenths: the nearest integer, halves upwards.
MathRound(tenths) == (tenths + 5) \div 10

\* net.isIPv4 of a string given as its dot-separated parts, -1 for a part that
\* is not a decimal number.
isIPv4(iface) == Len(iface) = 4 /\ \A i \in 1..Len(iface) : iface[i] \in 0..255

\* Buffers are sequences of bytes; the offsets of the program count from 0.
\* Buffer.alloc(length, 0)
BufferAlloc(length) == [ i \in 1..length |-> 0 ]

\* source.copy(buffer, offset)
BufferCopy(source, buffer, off) ==
    [ i \in 1..Len(buffer) |->
        IF i > off /\ i <= off + Len(source) THEN source[i - off] ELSE buffer[i] ]

writeUInt8(buffer, value, off) == [ buffer EXCEPT ![off + 1] = value ]

\* The 16-bit write with the low byte first.
writeUInt16LE(buffer, value, off) ==
    [ buffer EXCEPT ![off + 1] = value % 256, ![off + 2] = value \div 256 ]

writeUInt16BE(buffer, value, off) ==
    [ buffer EXCEPT ![off + 1] = value \div 256, ![off + 2] = value % 256 ]

readUInt8(buffer, off) == buffer[off + 1]

readUInt16BE(buffer, off) == buffer[off + 1] * 256 + buffer[off + 2]

\* The resolver with the comparison off by one: domain 3 gets the primary address.
ptpMulticastAddrBelow(domain) ==
    IF domain < MAX_DEDICATED THEN ptpDedicatedMulticastAddrs[domain + 1]
    ELSE PTP_PRIMARY_MULTICAST

\* domain <= 3 ? ptpDedicatedMulticastAddrs[domain] : PTP_PRIMARY_MULTICAST
ptpMulticastAddr(domain) ==
    IF domain <= MAX_DEDICATED THEN ptpDedicatedMulticastAddrs[domain + 1]
    ELSE PTP_PRIMARY_MULTICAST

-----------------------------------------------------------------------------
(* Inputs: the datagrams and sender addresses the handlers are driven with *)

\* The network the client runs in.  "timing": one master and time passes.
\* "masters": two masters on the configured domain, within one tick of the
\* clock.  "traffic": one master seen from two addresses among foreign traffic
\* (other subdomains, domains and versions, truncated datagrams), within one
\* tick of the clock.
Envs == { "timing", "masters", "traffic" }

SourceA == "aabbccddeeff"
SourceB == "112233445566"
AddressA == "192.168.1.1"
AddressB == "192.168.1.2"
Seqs == { 0, 1, 2 }
SyncSeq == 1             \* the sequence number the Syncs carry

EnvSources(e) == IF e = "masters" THEN { SourceA, SourceB } ELSE { SourceA }
EnvTicks(e) == e = "timing"       \* whether the clock advances

V1Buf(len, sub, type, uuid, seq, flags, ts) ==
    [ len |-> len, subdomain |-> sub, messageType |-> type, sourceUuid |-> uuid,
      sourcePortId |-> 1, sequenceId |-> seq, flags |-> flags,
      tsS |-> ts[1], tsNS |-> ts[2] ]

\* Wire timestamps: nanoseconds are a signed field in PTPv1.
V1Stamp == << 1, 0 >>
V1Stamps == { V1Stamp, << 1, -500000000 >> }
V1Configured == encodeSubdomain(NameDFLT)
V1OtherSubdomains == { encodeSubdomain(NameDFL), encodeSubdomain(NameDFLTX) }

\* Syncs of the configured subdomain that carry a timestamp.
V1Syncs(e) ==
    { V1Buf(V1_TS_LEN, V1Configured, MSG_SYNC, u, SyncSeq, f, V1Stamp) :
        u \in EnvSources(e), f \in { 0, FLAG_ASSIST } }

V1ForeignEvent ==
    { V1Buf(HEADER_LEN - 1, V1Configured, MSG_SYNC, SourceA, SyncSeq, FLAG_ASSIST, V1Stamp) }
    \cup { V1Buf(V1_TS_LEN, sub, MSG_SYNC, SourceA, SyncSeq, f, V1Stamp) :
             sub \in V1OtherSubdomains, f \in { 0, FLAG_ASSIST } }
    \cup { V1Buf(V1_TS_LEN, V1Configured, MSG_DELAY_REQ, SourceA, SyncSeq, 0, V1Stamp) }
    \cup { V1Buf(l, V1Configured, MSG_SYNC, SourceA, SyncSeq, f, V1Stamp) :
             l \in { HEADER_LEN, V1_TS_LEN - 1 }, f \in { 0, FLAG_ASSIST } }

V1EventInputs ==
    [ e \in Envs |->
        { << buffer, [ address |-> AddressA ] >> : buffer \in V1Syncs(e) }
        \cup IF e = "traffic"
             THEN { << buffer, [ address |-> AddressA ] >> : buffer \in V1ForeignEvent }
                  \cup { << V1Buf(V1_TS_LEN, V1Configured, MSG_SYNC, SourceA, SyncSeq,
                                  FLAG_ASSIST, V1Stamp),
                            [ address |-> AddressB ] >> }
             ELSE { } ]

\* Follow_Ups and Delay_Resps of the configured subdomain that carry a timestamp.
V1Generals(e) ==
    { V1Buf(V1_TS_LEN, V1Configured, MSG_FOLLOW_UP, SourceA, q, 0, ts) :
        q \in Seqs, ts \in IF e = "traffic" THEN V1Stamps ELSE { V1Stamp } }
    \cup { V1Buf(V1_TS_LEN, V1Configured, MSG_DELAY_RESP, SourceA, q, 0, V1Stamp) :
             q \in Seqs }

V1ForeignGeneral ==
    { V1Buf(HEADER_LEN - 1, V1Configured, MSG_FOLLOW_UP, SourceA, SyncSeq, 0, V1Stamp) }
    \cup { V1Buf(V1_TS_LEN, sub, type, SourceA, q, 0, V1Stamp) :
             sub \in V1OtherSubdomains, type \in { MSG_FOLLOW_UP, MSG_DELAY_RESP },
             q \in { 0, SyncSeq } }
    \cup { V1Buf(V1_TS_LEN - 1, V1Configured, type, SourceA, q, 0, V1Stamp) :
             type \in { MSG_FOLLOW_UP, MSG_DELAY_RESP }, q \in { 0, SyncSeq } }
    \cup { V1Buf(V1_TS_LEN, V1Configured, MSG_SYNC, SourceA, SyncSeq, 0, V1Stamp) }

V1GeneralInputs ==
    [ e \in Envs |-> V1Generals(e) \cup IF e = "traffic" THEN V1ForeignGeneral ELSE { } ]

V2Buf(len, type, version, domain, flags, id, seq, ts) ==
    [ len |-> len, type |-> type, version |-> version, domain |-> domain,
      flags |-> flags, clockIdentity |-> id, sequence |-> seq,
      tsS |-> ts[1], tsNS |-> ts[2] ]

\* Wire timestamps: nanoseconds are an unsigned 32-bit field in PTPv2 and are
\* stored as read, so a value of a full second stays in the nanoseconds.
V2Stamp == << 1, 0 >>
V2Stamps == { V2Stamp, << 0, 1000000000 >> }
V2OtherFilters == { << V2_VERSION, 1 >>, << 1, 0 >> }    \* << version, domain >>

V2Syncs(e) ==
    { V2Buf(V2_TS_LEN, V2_SYNC, V2_VERSION, 0, f, u, SyncSeq, V2Stamp) :
        u \in EnvSources(e), f \in { 0, V2_TWO_STEP } }

V2ForeignEvent ==
    { V2Buf(HEADER_LEN - 1, V2_SYNC, V2_VERSION, 0, V2_TWO_STEP, SourceA, SyncSeq, V2Stamp) }
    \cup { V2Buf(V2_TS_LEN, V2_SYNC, vd[1], vd[2], f, SourceA, SyncSeq, V2Stamp) :
             vd \in V2OtherFilters, f \in { 0, V2_TWO_STEP } }
    \cup { V2Buf(V2_TS_LEN, V2_FOLLOW_UP, V2_VERSION, 0, 0, SourceA, SyncSeq, V2Stamp) }
    \cup { V2Buf(l, V2_SYNC, V2_VERSION, 0, f, SourceA, SyncSeq, V2Stamp) :
             l \in { HEADER_LEN, V2_TS_LEN - 1 }, f \in { 0, V2_TWO_STEP } }

V2EventInputs ==
    [ e \in Envs |->
        { << buffer, [ address |-> AddressA ] >> : buffer \in V2Syncs(e) }
        \cup IF e = "traffic"
             THEN { << buffer, [ address |-> AddressA ] >> : buffer \in V2ForeignEvent }
                  \cup { << V2Buf(V2_TS_LEN, V2_SYNC, V2_VERSION, 0, V2_TWO_STEP, SourceA,
                                  SyncSeq, V2Stamp),
                            [ address |-> AddressB ] >> }
             ELSE { } ]

V2Generals(e) ==
    { V2Buf(V2_TS_LEN, V2_FOLLOW_UP, V2_VERSION, 0, 0, SourceA, q, ts) :
        q \in Seqs, ts \in IF e = "traffic" THEN V2Stamps ELSE { V2Stamp } }
    \cup { V2Buf(V2_TS_LEN, V2_DELAY_RESP, V2_VERSION, 0, 0, SourceA, q, V2Stamp) :
             q \in Seqs }

V2ForeignGeneral ==
    { V2Buf(HEADER_LEN - 1, V2_FOLLOW_UP, V2_VERSION, 0, 0, SourceA, SyncSeq, V2Stamp) }
    \cup { V2Buf(V2_TS_LEN, type, vd[1], vd[2], 0, SourceA, q, V2Stamp) :
             vd \in V2OtherFilters, type \in { V2_FOLLOW_UP, V2_DELAY_RESP },
             q \in { 0, SyncSeq } }
    \cup { V2Buf(V2_TS_LEN - 1, type, V2_VERSION, 0, 0, SourceA, q, V2Stamp) :
             type \in { V2_FOLLOW_UP, V2_DELAY_RESP }, q \in { 0, SyncSeq } }
    \cup { V2Buf(V2_TS_LEN, V2_SYNC, V2_VERSION, 0, 0, SourceA, SyncSeq, V2Stamp) }

V2GeneralInputs ==
    [ e \in Envs |-> V2Generals(e) \cup IF e = "traffic" THEN V2ForeignGeneral ELSE { } ]

\* Constructor arguments.
Intervals == { MIN_INTERVAL }

\* Arguments of the codec runs.  Nanoseconds reach two periods either way,
\* which is what the integers of the model hold; exact multiples of a period
\* and their neighbours are among them.
NormalizeNanos ==
    { k * NS_PER_S + d : k \in -2..1, d \in { 0, 1, NS_PER_S - 1 } }
    \cup { 2 * NS_PER_S, 2 * NS_PER_S + 1, -500000000, 1500000000 }

\* "0.0.0.0", "192.168.1.10", "256.1.1.1", "192.168.1", "eth0", "".
CodecIfaces ==
    { << 0, 0, 0, 0 >>, << 192, 168, 1, 10 >>, << 256, 1, 1, 1 >>, << 192, 168, 1 >>,
      << -1 >>, << >> }

\* "_DFLT", "_DFLTX", "", "ABCDEFGHIJKLMNO", "ABCDEFGHIJKLMNOP", "BAD\tSUB",
\* "BAD\x7fSUB", "caf\xe9".
CodecSubdomains ==
    { NameDFLT, NameDFLTX, << >>,
      [i \in 1..SUBDOMAIN_MAX_LEN |-> 64 + i], [i \in 1..(SUBDOMAIN_MAX_LEN + 1) |-> 64 + i],
      << 66, 65, 68, 9, 83, 85, 66 >>, << 66, 65, 68, 127, 83, 85, 66 >>,
      << 99, 97, 102, 233 >> }

\* Domains in tenths: -1, -0.4, 0, 0.4, 0.5, 1.7, 3, 4, 63.5, 126.5, 127,
\* 127.1, 128.
CodecDomainTenths == { -10, -4, 0, 4, 5, 17, 30, 40, 635, 1265, 1270, 1271, 1280 }

CodecIntervals == { MIN_INTERVAL - 1, MIN_INTERVAL }

\* Configured domains of the clients that build Delay_Reqs.
CodecDomains == { 0, 1, 2, 3, 4, 127 }

ReqSeqs == { 0 } \cup { SEQ_MOD - k : k \in 1..ReqBefore }

-----------------------------------------------------------------------------
(* Private helpers of the client *)

\* sync_change without the early return: every call emits.
sync_changeAlways(value) ==
    [ sync |-> value, out |-> << << "sync_changed", value >> >> ]

\* sync_change that sets the field and emits nothing.
sync_changeSilent(value) == [ sync |-> value, out |-> << >> ]

\* if (this.sync === sync) return; this.sync = sync; this.emit('sync_changed', this.sync)
sync_change(value) ==
    [ sync |-> value,
      out |-> IF sync = value THEN << >> ELSE << << "sync_changed", value >> >> ]

\* clearTimeout that cancels nothing.
clearTimeoutNoop(handle) == timers

\* if (this.syncTimeout) clearTimeout(this.syncTimeout): the pending timers
\* without the one the field holds.
clearTimeout(handle) == timers \ { handle }

\* setTimeout that arms nothing.
setTimeoutLost(queue, due) == queue

\* setTimeout(callback, delay) with the timers in queue pending: one more, due
\* at the given wall time.
setTimeout(queue, due) == queue \cup { due }

\* startSyncTimeout with the factor 2 dropped.
startSyncTimeoutOnce == now + minSyncInterval

\* clearTimeout of the pending timer, then setTimeout(..., minSyncInterval * 2):
\* the value is the wall time at which the one pending timeout is due.
startSyncTimeout == now + minSyncInterval * 2

\* addSubdomain without the has() check: every packet notifies.
addSubdomainNoDedup(name) ==
    [ found |-> subdomainsFound \cup { name },
      out |-> << << "subdomains", subdomainsFound \cup { name } >> >> ]

addSubdomain(name) ==
    IF name \in subdomainsFound
    THEN [ found |-> subdomainsFound, out |-> << >> ]
    ELSE [ found |-> subdomainsFound \cup { name },
           out |-> << << "subdomains", subdomainsFound \cup { name } >> >> ]

addDomain(domain) ==
    IF domain \in domainsFound
    THEN [ found |-> domainsFound, out |-> << >> ]
    ELSE [ found |-> domainsFound \cup { domain },
           out |-> << << "domains", domainsFound \cup { domain } >> >> ]

\* The subdomain compared as a string prefix instead of as 16 bytes.
subdomainPrefixMatches(buffer) ==
    \A i \in 1..Len(decodeSubdomain(buffer)) : buffer.subdomain[i] = subdomainBuf[i]

\* buffer.subarray(0, 16).equals(this.subdomainBuf)
subdomainMatches(buffer) == buffer.subdomain = subdomainBuf

\* The filter with the version comparison left out.
domainMatchesDomainOnly(buffer) == buffer.domain = ptp_domain

\* The filter with the domain comparison left out.
domainMatchesVersionOnly(buffer) == buffer.version = V2_VERSION

\* version != 2 || domain != this.ptp_domain  ->  return
domainMatches(buffer) == buffer.version = V2_VERSION /\ buffer.domain = ptp_domain

\* Every Sync taken for a change of master.
masterChangedAlways(source) == TRUE

\* Master change detected only while no master is stored.
masterChangedFirstOnly(source) == ptpMaster = NoMaster

\* source !== this.ptpMaster
masterChanged(source) == source # ptpMaster

\* The rate-limit comparison inverted.
rateLimitInverted == now - lastSync < minSyncInterval

\* The guard open already when exactly the interval has passed.
rateLimitPassedInclusive == now - lastSync >= minSyncInterval

\* Date.now() - this.lastSync > this.minSyncInterval
rateLimitPassed == now - lastSync > minSyncInterval

\* Follow_Up accepted without comparing its sequence.
followUpAnySequence(isFollowUp, sequence) == isFollowUp /\ rateLimitPassed

\* msgType === MSG_FOLLOW_UP && sequence === this.sync_seq && <rate limit>
followUpAccepted(isFollowUp, sequence) ==
    isFollowUp /\ sequence = sync_seq /\ rateLimitPassed

\* Delay_Resp compared with the sequence of the next request.
delayRespNextSeq(isDelayResp, sequence) ==
    isDelayResp /\ sequence = (req_seq + 1) % SEQ_MOD

\* msgType === MSG_DELAY_RESP && sequence === this.req_seq
delayRespAccepted(isDelayResp, sequence) ==
    isDelayResp /\ sequence = req_seq

\* 2^53 .. 2^60 ns as << seconds, nanoseconds >>: the magnitudes from which a
\* double holds multiples of 2, 4, .. 256 ns only.  Below the first it holds
\* every whole number of nanoseconds.
DoubleBinades ==
    << << 9007199, 254740992 >>, << 18014398, 509481984 >>, << 36028797, 18963968 >>,
       << 72057594, 37927936 >>, << 144115188, 75855872 >>, << 288230376, 151711744 >>,
       << 576460752, 303423488 >>, << 1152921504, 606846976 >> >>

\* |whole * 1e9 + part| as << seconds, nanoseconds >>, for 0 <= part < 1e9.
Magnitude(whole, part) ==
    IF whole >= 0
    THEN << whole, part >>
    ELSE IF part = 0 THEN << -whole, 0 >> ELSE << -whole - 1, NS_PER_S - part >>

\* The spacing, in ns, of the doubles at magnitude m.
doubleSpacing(m) ==
    2 ^ Cardinality({ i \in 1..Len(DoubleBinades) :
                        \/ DoubleBinades[i][1] < m[1]
                        \/ DoubleBinades[i][1] = m[1] /\ DoubleBinades[i][2] <= m[2] })

\* The multiple of spacing nearest to x >= 0, the even multiple of two equally near.
roundToSpacing(x, spacing) ==
    LET k == x \div spacing
        r == x % spacing
    IN IF 2 * r < spacing \/ (2 * r = spacing /\ k % 2 = 0)
       THEN k * spacing
       ELSE (k + 1) * spacing

\* ((ts1 - t1) - (ts2 - t2)) / 2 for a ts2 decoded as newTs2, in unbounded
\* precision: whole * 1e9 + part, 0 <= part < 1e9, so that no intermediate
\* value leaves the range of the model's integers.
halfDelta(newTs2) ==
    LET a == ts1[1] - t1[1]
        b == t2[1] - newTs2[1]
        dNS == ts1[2] - t1[2] - newTs2[2] + t2[2]
        rest == ((a % 2) + (b % 2)) * (NS_PER_S \div 2) + Half(dNS)
    IN [ whole |-> (a \div 2) + (b \div 2) + (rest \div NS_PER_S),
         part |-> rest % NS_PER_S,
         exact |-> dNS % 2 = 0 ]

\* const delta = 0.5 * (ts1[0] - t1[0] - ts2[0] + t2[0]) * 1_000_000_000
\*             + 0.5 * (ts1[1] - t1[1] - ts2[1] + t2[1])
\* in doubles: both products are exact for 32-bit seconds, their sum is rounded
\* to the spacing of the doubles at its magnitude.  whole * 1e9 is a multiple
\* of 512, so the rounding is that of part.
delta(newTs2) ==
    LET d == halfDelta(newTs2)
        rounded == roundToSpacing(d.part, doubleSpacing(Magnitude(d.whole, d.part)))
    IN IF rounded = NS_PER_S
       THEN [ whole |-> d.whole + 1, part |-> 0 ]
       ELSE [ whole |-> d.whole, part |-> rounded ]

\* const deltaS = Math.trunc(delta / 1_000_000_000)
\* const deltaNS = delta - deltaS * 1_000_000_000
\* The quotient's rounding never reaches the next whole number (delta is a
\* multiple of its spacing, more than half the quotient's spacing away from
\* it), and the product and the difference are exact.
deltaSplit(newTs2) ==
    LET d == delta(newTs2)
        deltaS == IF d.whole >= 0 \/ d.part = 0 THEN d.whole ELSE d.whole + 1
    IN [ deltaS |-> deltaS,
         deltaNS |-> IF deltaS = d.whole THEN d.part ELSE d.part - NS_PER_S ]

\* The offset update with the final normalizePtpTime left out.
offsetUpdateUnnormalized(newTs2) ==
    LET d == deltaSplit(newTs2)
    IN [ offset |-> << offset[1] + d.deltaS, offset[2] + d.deltaNS >>,
         exact |-> halfDelta(newTs2).exact ]

\* The offset update of an accepted Delay_Resp whose timestamp was decoded as newTs2:
\*   this.offset = normalizePtpTime(this.offset[0] + deltaS, this.offset[1] + deltaNS)
offsetUpdate(newTs2) ==
    LET d == deltaSplit(newTs2)
    IN [ offset |-> normalizePtpTime(offset[1] + d.deltaS, offset[2] + d.deltaNS),
         exact |-> halfDelta(newTs2).exact ]

Count(out, kind) == Cardinality({ i \in 1..Len(out) : out[i][1] = kind })

CountValue(out, kind, value) ==
    Cardinality({ i \in 1..Len(out) : out[i][1] = kind /\ out[i][2] = value })

\* Progress through the two exchange scenarios of a fresh client and, after
\* either, through a change of master followed at once by a Delay_Resp, or
\* to a one-step Sync or Follow_Up of the same master that arrives within the
\* sync interval; and from a fresh client through a Delay_Resp that completes
\* with no request sent, followed by another one later, before the timeout
\* armed by the first is due.  A
\* step that is not the scenario's next one leaves it for good; the
\* notifications of the steps on the way are counted.
ScenarioOff == [ phase |-> "off", trues |-> 0, synceds |-> 0 ]

ScenarioPhase(evt, out) ==
    CASE scenario.phase = "fresh" /\ evt = "sync2" -> "sync2"
      [] scenario.phase = "fresh" /\ evt = "sync1" -> "sync1"
      [] scenario.phase = "fresh" /\ evt = "trunc" -> "trunc"
      [] scenario.phase = "fresh" /\ evt = "dr" -> "unasked"
      [] scenario.phase = "unasked" /\ evt = "dr"
             /\ now > lastSync /\ now < lastSync + 2 * minSyncInterval -> "renewed"
      [] scenario.phase = "sync2" /\ evt = "fu" -> "fu"
      [] scenario.phase = "fu" /\ evt = "req" -> "req2"
      [] scenario.phase = "sync1" /\ evt = "req" -> "req1"
      [] scenario.phase \in { "req1", "req2" } /\ evt = "sent" -> scenario.phase
      [] scenario.phase = "req2" /\ evt = "dr" -> "done2"
      [] scenario.phase = "req1" /\ evt = "dr" -> "done1"
      [] scenario.phase \in { "done1", "done2" } /\ evt \in { "sync1", "sync2" }
             /\ Count(out, "ptp_master_changed") = 1 -> "changed"
      [] scenario.phase = "changed" /\ evt = "dr" -> "stale"
      [] scenario.phase \in { "done1", "done2" } /\ evt \in { "sync1", "fu" }
             /\ Count(out, "ptp_master_changed") = 0
             /\ now - lastSync <= minSyncInterval -> "guarded"
      [] OTHER -> "off"

ScenarioStep(evt, out) ==
    IF ScenarioPhase(evt, out) = "off"
    THEN ScenarioOff
    ELSE [ phase |-> ScenarioPhase(evt, out),
           trues |-> scenario.trues + CountValue(out, "sync_changed", TRUE),
           synceds |-> scenario.synceds + Count(out, "ptp_time_synced") ]

-----------------------------------------------------------------------------
(* What a datagram is on the wire, read off its fields alone *)

WireKindEventV1(buffer) ==
    IF buffer.len >= HEADER_LEN /\ buffer.messageType = MSG_SYNC
       /\ buffer.subdomain = subdomainBuf
    THEN IF BitSet(buffer.flags, FLAG_ASSIST) THEN "sync2"
         ELSE IF buffer.len >= V1_TS_LEN THEN "sync1" ELSE "trunc"
    ELSE "other"

WireKindEventV2(buffer) ==
    IF buffer.len >= HEADER_LEN /\ buffer.type = V2_SYNC
       /\ buffer.version = V2_VERSION /\ buffer.domain = ptp_domain
    THEN IF BitSet(buffer.flags, V2_TWO_STEP) THEN "sync2"
         ELSE IF buffer.len >= V2_TS_LEN THEN "sync1" ELSE "trunc"
    ELSE "other"

WireKindGeneralV1(buffer) ==
    IF buffer.len >= V1_TS_LEN /\ buffer.subdomain = subdomainBuf
    THEN CASE buffer.messageType = MSG_FOLLOW_UP /\ buffer.sequenceId = sync_seq -> "fu"
           [] buffer.messageType = MSG_DELAY_RESP /\ buffer.sequenceId = req_seq -> "dr"
           [] OTHER -> "other"
    ELSE "other"

WireKindGeneralV2(buffer) ==
    IF buffer.len >= V2_TS_LEN /\ buffer.version = V2_VERSION /\ buffer.domain = ptp_domain
    THEN CASE buffer.type = V2_FOLLOW_UP /\ buffer.sequence = sync_seq -> "fu"
           [] buffer.type = V2_DELAY_RESP /\ buffer.sequence = req_seq -> "dr"
           [] OTHER -> "other"
    ELSE "other"

-----------------------------------------------------------------------------
(* Construction *)

\* The timestamps of an exchange and the offset it started from.
NoExchange ==
    [ ts1 |-> << 0, 0 >>, t1 |-> << 0, 0 >>, ts2 |-> << 0, 0 >>, t2 |-> << 0, 0 >>,
      offset |-> << 0, 0 >> ]

NoCall ==
    [ fn |-> "none", proto |-> "v1", iface |-> << 0, 0, 0, 0 >>, subdomain |-> NameDFLT,
      domainTenths |-> 0, interval |-> DEFAULT_INTERVAL, s |-> 0, ns |-> 0,
      binds |-> << "ok", "ok" >>, exchange |-> NoExchange ]

NoResult == [ kind |-> "none", time |-> << 0, 0 >> ]
Constructed == [ kind |-> "constructed", time |-> << 0, 0 >> ]
Thrown == [ kind |-> "TypeError", time |-> << 0, 0 >> ]
Unhandled == [ kind |-> "ERR_UNHANDLED_ERROR", time |-> << 0, 0 >> ]

\* The field initialisers of the two classes.
DefaultAddr(p) == IF p = "v1" THEN << 0, 0, 0, 0 >> ELSE << 127, 0, 0, 1 >>
DefaultSubdomainBuf == encodeSubdomain(NameDFLT)
DefaultDomain == 0

\* The subdomain checks without the one on the maximum length.
subdomainRejectedNoLength(name) ==
    \/ Len(name) = 0
    \/ \E i \in 1..Len(name) : name[i] \notin 32..126

\* subdomain.length === 0, subdomain.length > SUBDOMAIN_MAX_LEN,
\* !/^[\x20-\x7E]+$/.test(subdomain): each throws a TypeError
subdomainRejected(name) ==
    \/ Len(name) = 0
    \/ Len(name) > SUBDOMAIN_MAX_LEN
    \/ \E i \in 1..Len(name) : name[i] \notin 32..126

\* The domain rounded with no check of its range.
domainConfiguredUnchecked(tenths) == MathRound(tenths)

\* if (domain >= 0 && domain <= 127) this.ptp_domain = Math.round(domain)
domainConfigured(tenths) ==
    IF tenths >= 0 /\ tenths <= MAX_DOMAIN * 10 THEN MathRound(tenths) ELSE DefaultDomain

\* if (interval >= 125) this.minSyncInterval = Math.round(interval)
intervalConfigured(interval) ==
    IF interval >= MIN_INTERVAL THEN interval ELSE DEFAULT_INTERVAL

\* The group a client of protocol p configured for domain d joins and sends to.
Group(p, d) == IF p = "v1" THEN PTP_MULTICAST ELSE ptpMulticastAddr(d)

\* bind(319, addr) of the event socket and bind(320, addr) of the general one.
BothBound(a) == { << "event", EVENT_PORT, a >>, << "general", GENERAL_PORT, a >> }

\* What the 'listening' handlers of both sockets have joined.
BothJoined(p, d, a) == { << "event", Group(p, d), a >>, << "general", Group(p, d), a >> }

\* What bind() of a socket does: "ok" binds and 'listening' follows, "error"
\* fails with an 'error' event of the socket, "throws" throws out of the call.
\* binds gives this for the event and for the general socket.
BindOutcomes == { "ok", "error", "throws" }

Sockets == << "event", "general" >>

\* The try block: bind(319, addr), then bind(320, addr) unless the first threw.
bindCalled(binds) == IF binds[1] = "throws" THEN { 1 } ELSE { 1, 2 }

bindThrew(binds) == \E i \in bindCalled(binds) : binds[i] = "throws"

\* emit('error', ...) of an EventEmitter: thrown when 'error' has no listener.
emitErrorThrows(hasListener) == ~hasListener

\* try { bind; bind } catch (e) { this.emit('error', ...) }: the sockets left
\* binding, the binds that will fail with an event, and whether the emit of
\* the catch block, which runs before the caller holds the instance, throws.
bindBoth(a, binds) ==
    [ bound |-> { << Sockets[i], IF i = 1 THEN EVENT_PORT ELSE GENERAL_PORT, a >> :
                    i \in { j \in bindCalled(binds) : binds[j] = "ok" } },
      errors |-> { << Sockets[i], "pending" >> :
                     i \in { j \in bindCalled(binds) : binds[j] = "error" } },
      thrown |-> bindThrew(binds) /\ emitErrorThrows(FALSE) ]

\* The constructor called with the arguments of c: what it throws, or the
\* configuration it stores before it binds the two sockets.
construct(c) ==
    [ thrown |-> ~isIPv4(c.iface) \/ (c.proto = "v1" /\ subdomainRejected(c.subdomain)),
      addr |-> c.iface,
      subdomainBuf |-> IF c.proto = "v1" THEN encodeSubdomain(c.subdomain)
                       ELSE DefaultSubdomainBuf,
      ptp_domain |-> IF c.proto = "v2" THEN domainConfigured(c.domainTenths)
                     ELSE DefaultDomain,
      minSyncInterval |-> intervalConfigured(c.interval) ]

NormalizeCalls ==
    { [ NoCall EXCEPT !.fn = "normalize", !.proto = p, !.s = s, !.ns = ns ] :
        p \in { "v1", "v2" }, s \in (-MaxSeconds)..MaxSeconds, ns \in NormalizeNanos }

ConstructCalls ==
    { [ NoCall EXCEPT !.fn = "construct", !.proto = "v1", !.iface = i, !.subdomain = n,
                      !.interval = t, !.binds = b ] :
        i \in CodecIfaces, n \in CodecSubdomains, t \in CodecIntervals,
        b \in BindOutcomes \X BindOutcomes }
    \cup { [ NoCall EXCEPT !.fn = "construct", !.proto = "v2", !.iface = i,
                           !.domainTenths = d, !.interval = t, !.binds = b ] :
             i \in CodecIfaces, d \in CodecDomainTenths, t \in CodecIntervals,
             b \in BindOutcomes \X BindOutcomes }

DelayReqCalls ==
    { [ NoCall EXCEPT !.fn = "delay_req", !.proto = "v1", !.subdomain = n,
                      !.interval = MIN_INTERVAL ] :
        n \in { m \in CodecSubdomains : ~subdomainRejected(m) } }
    \cup { [ NoCall EXCEPT !.fn = "delay_req", !.proto = "v2", !.domainTenths = d * 10,
                           !.interval = MIN_INTERVAL ] : d \in CodecDomains }

\* Exchanges awaiting their Delay_Resp.  The client's clock read 5 s when the
\* Sync arrived, on a fresh client, or had been set to a master's epoch time
\* before; the master's clock reads 3 s, 7 s or epoch time, and the Delay_Req
\* left 100 ns or 102 ns after the Sync had arrived.
EpochSeconds == 1700000000

Exchanges ==
    { [ ts1 |-> << l, 100 >>, t1 |-> << m, 500000000 >>, ts2 |-> << m, 600000000 >>,
        t2 |-> << l, 200 + 2 * k >>,
        offset |-> IF l = EpochSeconds THEN << 5 - EpochSeconds, 0 >> ELSE << 0, 0 >> ] :
        l \in { 5, EpochSeconds }, m \in { 3, 7, EpochSeconds }, k \in 0..1 }

DelayRespCalls ==
    { [ NoCall EXCEPT !.fn = "delay_resp", !.proto = p, !.interval = MIN_INTERVAL,
                      !.exchange = x ] :
        p \in { "v1", "v2" }, x \in Exchanges }

CodecCalls == NormalizeCalls \cup ConstructCalls \cup DelayReqCalls \cup DelayRespCalls

\* The state after construction with the default interface and domain or
\* subdomain, both sockets listening.
Init ==
    /\ env \in Envs
    /\ proto \in { "v1", "v2" }
    /\ subdomainBuf = V1Configured
    /\ ptp_domain = 0
    /\ \E interval \in Intervals : minSyncInterval = intervalConfigured(interval)
    /\ addr = << 0, 0, 0, 0 >>
    /\ bound = BothBound(addr)
    /\ joined = BothJoined(proto, ptp_domain, addr)
    /\ lastDelayReq = << >>
    /\ bindErrors = { }
    /\ call = NoCall
    /\ result = Constructed
    /\ sync = FALSE
    /\ syncTimeout = NoTimer
    /\ timers = { }
    /\ ptpMaster = NoMaster
    /\ ptpMasterAddress = ""
    /\ subdomainsFound = { }
    /\ domainsFound = { }
    /\ t1 = << 0, 0 >> /\ ts1 = << 0, 0 >> /\ t2 = << 0, 0 >> /\ ts2 = << 0, 0 >>
    /\ offset = << 0, 0 >>
    /\ sync_seq = 0
    /\ req_seq = 0
    /\ lastSync = 0
    /\ now = StartNow
    /\ immediates = 0
    /\ sends = 0
    /\ destroyed = FALSE
    /\ crashed = FALSE
    /\ emitted = << >>
    /\ completions = 0
    /\ halfExact = TRUE
    /\ scenario = [ phase |-> "fresh", trues |-> 0, synceds |-> 0 ]

Running == ~destroyed /\ ~crashed

\* The work done (see MaxWork) when the session is s with n exchanges completed.
WorkOf(s, n) ==
    (now - StartNow) \div TickMs + s.req_seq + s.immediates + n
        + Cardinality(s.subdomainsFound) + Cardinality(s.domainsFound)

-----------------------------------------------------------------------------
(* The handlers, as functions of the client's state and their input.  Each   *)
(* gives the fields after the handler has run and, in out, what it emitted.  *)

Session ==
    [ sync |-> sync, syncTimeout |-> syncTimeout, ptpMaster |-> ptpMaster,
      ptpMasterAddress |-> ptpMasterAddress, subdomainsFound |-> subdomainsFound,
      domainsFound |-> domainsFound, t1 |-> t1, ts1 |-> ts1, t2 |-> t2, ts2 |-> ts2,
      offset |-> offset, sync_seq |-> sync_seq, req_seq |-> req_seq,
      lastSync |-> lastSync, immediates |-> immediates, sends |-> sends,
      bound |-> bound, joined |-> joined, lastDelayReq |-> lastDelayReq,
      bindErrors |-> bindErrors, timers |-> timers,
      out |-> << >> ]

\* The event socket's handler from the Sync filter on; s is the session after
\* the registry was fed.
\*   isSync   the packet is a Sync that passed the domain/subdomain filter
\*   twoStep  its two-step flag is set
\*   hasTs    it is long enough to carry a timestamp
\*   newT1    that timestamp, decoded
EventUpdate(s, isSync, source, address, sequence, twoStep, hasTs, newT1) ==
    LET recv_ts == getCorrectedTime(offset)
        changed == isSync /\ masterChanged(source)
        syncNow == IF changed THEN FALSE ELSE sync
        oneStep == isSync /\ ~twoStep /\ rateLimitPassed /\ hasTs
    IN [ s EXCEPT
           !.ptpMaster = IF changed THEN source ELSE @,
           !.ptpMasterAddress = IF changed THEN address ELSE @,
           !.sync = syncNow,
           !.sync_seq = IF isSync THEN sequence ELSE @,
           !.ts1 = IF isSync /\ (twoStep \/ oneStep) THEN recv_ts ELSE @,
           !.t1 = IF oneStep THEN newT1 ELSE @,
           !.immediates = IF oneStep THEN @ + 1 ELSE @,
           !.out = IF changed
                   THEN @ \o << << "ptp_master_changed", source, address, syncNow >> >>
                   ELSE @ ]

onEventMessageV1(buffer, rinfo) ==
    IF buffer.len < HEADER_LEN
    THEN Session
    ELSE LET reg == addSubdomain(decodeSubdomain(buffer))
         IN EventUpdate([ Session EXCEPT !.subdomainsFound = reg.found, !.out = reg.out ],
                        buffer.messageType = MSG_SYNC /\ subdomainMatches(buffer),
                        formatSourceId(buffer), rinfo.address, buffer.sequenceId,
                        BitSet(buffer.flags, FLAG_ASSIST),
                        buffer.len >= V1_TS_LEN,
                        normalizePtpTime(buffer.tsS, buffer.tsNS))

onEventMessageV2(buffer, rinfo) ==
    IF buffer.len < HEADER_LEN
    THEN Session
    ELSE LET reg == addDomain(buffer.domain)
         IN EventUpdate([ Session EXCEPT !.domainsFound = reg.found, !.out = reg.out ],
                        domainMatches(buffer) /\ buffer.type = V2_SYNC,
                        formatSourceV2(buffer), rinfo.address, buffer.sequence,
                        BitSet(buffer.flags, V2_TWO_STEP),
                        buffer.len >= V2_TS_LEN,
                        << buffer.tsS, buffer.tsNS >>)

\* The general socket's handler from the filter on; s is the session after the
\* registry was fed.
\*   eligible  the packet passed the filter and carries a timestamp
\*   newTs     that timestamp, decoded
GeneralUpdate(s, eligible, isFollowUp, isDelayResp, sequence, newTs) ==
    LET fu == eligible /\ followUpAccepted(isFollowUp, sequence)
        dr == eligible /\ ~fu /\ delayRespAccepted(isDelayResp, sequence)
        upd == offsetUpdate(newTs)
        sc == sync_change(TRUE)
    IN IF fu
       THEN [ s EXCEPT !.t1 = newTs, !.immediates = @ + 1 ]
       ELSE IF dr
            THEN [ s EXCEPT
                     !.ts2 = newTs,
                     !.offset = upd.offset,
                     !.lastSync = now,
                     !.syncTimeout = startSyncTimeout,
                     !.timers = setTimeout(clearTimeout(syncTimeout), startSyncTimeout),
                     !.sync = sc.sync,
                     !.out = @ \o << << "ptp_time_synced", getCorrectedTime(upd.offset), now >> >>
                               \o sc.out ]
            ELSE s

\* The legacy general handler without its check of the timestamp length.
onGeneralMessageV1NoLength(buffer) ==
    IF buffer.len < HEADER_LEN
    THEN Session
    ELSE LET reg == addSubdomain(decodeSubdomain(buffer))
         IN GeneralUpdate([ Session EXCEPT !.subdomainsFound = reg.found, !.out = reg.out ],
                          subdomainMatches(buffer),
                          buffer.messageType = MSG_FOLLOW_UP,
                          buffer.messageType = MSG_DELAY_RESP,
                          buffer.sequenceId,
                          normalizePtpTime(buffer.tsS, buffer.tsNS))

onGeneralMessageV1(buffer) ==
    IF buffer.len < HEADER_LEN
    THEN Session
    ELSE LET reg == addSubdomain(decodeSubdomain(buffer))
         IN GeneralUpdate([ Session EXCEPT !.subdomainsFound = reg.found, !.out = reg.out ],
                          buffer.len >= V1_TS_LEN /\ subdomainMatches(buffer),
                          buffer.messageType = MSG_FOLLOW_UP,
                          buffer.messageType = MSG_DELAY_RESP,
                          buffer.sequenceId,
                          normalizePtpTime(buffer.tsS, buffer.tsNS))

onGeneralMessageV2(buffer) ==
    IF buffer.len < HEADER_LEN
    THEN Session
    ELSE LET reg == addDomain(buffer.domain)
         IN GeneralUpdate([ Session EXCEPT !.domainsFound = reg.found, !.out = reg.out ],
                          domainMatches(buffer) /\ buffer.len >= V2_TS_LEN,
                          buffer.type = V2_FOLLOW_UP,
                          buffer.type = V2_DELAY_RESP,
                          buffer.sequence,
                          << buffer.tsS, buffer.tsNS >>)

\* The reads each 'message' handler performs on a datagram in the present
\* state, as << offset, width >> in bytes, along the path the handler takes.
eventReads(buffer) ==
    IF buffer.len < HEADER_LEN
    THEN { }
    ELSE IF proto = "v1"
    THEN { << 16, 1 >>, << 26, 2 >>, << 30, 2 >>, << 0, 16 >> }
         \cup IF buffer.messageType = MSG_SYNC /\ subdomainMatches(buffer)
              THEN { << 18, 6 >>, << 24, 2 >> }
                   \cup IF ~BitSet(buffer.flags, FLAG_ASSIST) /\ rateLimitPassed
                           /\ buffer.len >= V1_TS_LEN
                        THEN { << 32, 4 >>, << 36, 4 >> }
                        ELSE { }
              ELSE { }
    ELSE { << 0, 1 >>, << 1, 1 >>, << 4, 1 >>, << 6, 2 >>, << 20, 8 >>, << 30, 2 >> }
         \cup IF domainMatches(buffer) /\ buffer.type = V2_SYNC
                 /\ ~BitSet(buffer.flags, V2_TWO_STEP) /\ rateLimitPassed
                 /\ buffer.len >= V2_TS_LEN
              THEN { << 34, 2 >>, << 36, 4 >>, << 40, 4 >> }
              ELSE { }

\* The general handler reading the timestamp with the header's length check only.
generalReadsHeaderChecked(buffer) ==
    IF buffer.len < HEADER_LEN
    THEN { }
    ELSE IF proto = "v1"
    THEN { << 16, 1 >>, << 26, 2 >>, << 0, 16 >> }
         \cup IF subdomainMatches(buffer)
                 /\ \/ followUpAccepted(buffer.messageType = MSG_FOLLOW_UP, buffer.sequenceId)
                    \/ delayRespAccepted(buffer.messageType = MSG_DELAY_RESP, buffer.sequenceId)
              THEN { << 32, 4 >>, << 36, 4 >> }
              ELSE { }
    ELSE { << 0, 1 >>, << 1, 1 >>, << 4, 1 >>, << 30, 2 >> }
         \cup IF domainMatches(buffer)
                 /\ \/ followUpAccepted(buffer.type = V2_FOLLOW_UP, buffer.sequence)
                    \/ delayRespAccepted(buffer.type = V2_DELAY_RESP, buffer.sequence)
              THEN { << 34, 2 >>, << 36, 4 >>, << 40, 4 >> }
              ELSE { }

generalReads(buffer) ==
    IF buffer.len < HEADER_LEN
    THEN { }
    ELSE IF proto = "v1"
    THEN { << 16, 1 >>, << 26, 2 >>, << 0, 16 >> }
         \cup IF buffer.len >= V1_TS_LEN /\ subdomainMatches(buffer)
                 /\ \/ followUpAccepted(buffer.messageType = MSG_FOLLOW_UP, buffer.sequenceId)
                    \/ delayRespAccepted(buffer.messageType = MSG_DELAY_RESP, buffer.sequenceId)
              THEN { << 32, 4 >>, << 36, 4 >> }
              ELSE { }
    ELSE { << 0, 1 >>, << 1, 1 >>, << 4, 1 >>, << 30, 2 >> }
         \cup IF domainMatches(buffer) /\ buffer.len >= V2_TS_LEN
                 /\ \/ followUpAccepted(buffer.type = V2_FOLLOW_UP, buffer.sequence)
                    \/ delayRespAccepted(buffer.type = V2_DELAY_RESP, buffer.sequence)
              THEN { << 34, 2 >>, << 36, 4 >>, << 40, 4 >> }
              ELSE { }

\* The increment without the modulo.
ptp_delay_reqNoWrap == req_seq + 1

\* this.req_seq = (this.req_seq + 1) % 0x10000, in ptp_delay_req()
ptp_delay_req == (req_seq + 1) % SEQ_MOD

\* The Delay_Req of the modern client with the domain byte left zero.
delayReqBufferDomainZero(seq) ==
    IF proto = "v1"
    THEN [ len |-> V1_REQ_LEN, subdomain |-> subdomainBuf, messageType |-> MSG_DELAY_REQ,
           sequenceId |-> seq, control |-> CTRL_DELAY_REQ ]
    ELSE [ len |-> V2_REQ_LEN, type |-> V2_DELAY_REQ, version |-> V2_VERSION,
           length |-> V2_REQ_LEN, domain |-> 0, sequence |-> seq ]

\* The buffer ptp_delay_req() returns for sequence seq; every byte it does
\* not write is zero.
delayReqBuffer(seq) ==
    IF proto = "v1"
    THEN [ len |-> V1_REQ_LEN, subdomain |-> subdomainBuf, messageType |-> MSG_DELAY_REQ,
           sequenceId |-> seq, control |-> CTRL_DELAY_REQ ]
    ELSE [ len |-> V2_REQ_LEN, type |-> V2_DELAY_REQ, version |-> V2_VERSION,
           length |-> V2_REQ_LEN, domain |-> ptp_domain, sequence |-> seq ]

\* The bytes of that buffer, written as ptp_delay_req() writes them.
delayReqBytes(seq) ==
    IF proto = "v1"
    THEN writeUInt8(
             writeUInt16BE(
                 writeUInt8(
                     writeUInt8(BufferCopy(subdomainBuf, BufferAlloc(V1_REQ_LEN), 0),
                                MSG_DELAY_REQ, 16),
                     0, 17),
                 seq, 26),
             CTRL_DELAY_REQ, 28)
    ELSE writeUInt16BE(
             writeUInt8(
                 writeUInt16BE(
                     writeUInt8(writeUInt8(BufferAlloc(V2_REQ_LEN), V2_DELAY_REQ, 0),
                                V2_VERSION, 1),
                     V2_REQ_LEN, 2),
                 ptp_domain, 4),
             seq, 30)

\* The header fields of a legacy datagram, read as the handlers read them.
headerV1(buffer) ==
    [ subdomain |-> StripNul(SubSeq(buffer, 1, 16)),
      messageType |-> readUInt8(buffer, 16),
      sourceUuid |-> SubSeq(buffer, 19, 24),
      sourcePortId |-> readUInt16BE(buffer, 24),
      sequenceId |-> readUInt16BE(buffer, 26),
      control |-> readUInt8(buffer, 28),
      flags |-> readUInt16BE(buffer, 30) ]

\* The header fields of a modern datagram, read as the handlers read them.
headerV2(buffer) ==
    [ type |-> readUInt8(buffer, 0) % 16,
      version |-> readUInt8(buffer, 1),
      length |-> readUInt16BE(buffer, 2),
      domain |-> readUInt8(buffer, 4),
      flags |-> readUInt16BE(buffer, 6),
      clockIdentity |-> SubSeq(buffer, 21, 28),
      sequence |-> readUInt16BE(buffer, 30) ]

\* this.ptpClientEvent.send(buffer, 319, <group>, callback)
delayReqSend(seq) ==
    [ socket |-> "event", buffer |-> delayReqBuffer(seq), bytes |-> delayReqBytes(seq),
      port |-> EVENT_PORT, address |-> Group(proto, ptp_domain) ]

Work == WorkOf(Session, completions)

\* The setImmediate callback taking the send timestamp before it sends.
onImmediateStampsBefore ==
    [ Session EXCEPT !.immediates = @ - 1,
                     !.req_seq = ptp_delay_req,
                     !.t2 = getCorrectedTime(offset),
                     !.sends = IF destroyed THEN @ ELSE @ + 1,
                     !.lastDelayReq = IF destroyed THEN @
                                      ELSE << delayReqSend(ptp_delay_req) >> ]

\* The setImmediate callback handing its Delay_Req to send() twice.
onImmediateSendsTwice ==
    [ Session EXCEPT !.immediates = @ - 1,
                     !.req_seq = ptp_delay_req,
                     !.sends = IF destroyed THEN @ ELSE @ + 2,
                     !.lastDelayReq = IF destroyed THEN @
                                      ELSE << delayReqSend(ptp_delay_req) >> ]

\* The setImmediate callback: ptp_delay_req() builds the request, then the
\* event socket's send() is called with it; send() on a socket that destroy()
\* has closed throws and issues nothing.
onImmediate ==
    [ Session EXCEPT !.immediates = @ - 1,
                     !.req_seq = ptp_delay_req,
                     !.sends = IF destroyed THEN @ ELSE @ + 1,
                     !.lastDelayReq = IF destroyed THEN @
                                      ELSE << delayReqSend(ptp_delay_req) >> ]

\* The completion callback taking the send timestamp whether or not the send failed.
onSendDoneStampsAlways(err) ==
    [ Session EXCEPT !.sends = @ - 1, !.t2 = getCorrectedTime(offset),
                     !.out = IF err THEN << << "error", "send" >> >> ELSE << >> ]

\* The completion callback of a send: (err) => err ? emit('error', err) : t2 = corrected time
onSendDone(err) ==
    IF err
    THEN [ Session EXCEPT !.sends = @ - 1, !.out = << << "error", "send" >> >> ]
    ELSE [ Session EXCEPT !.sends = @ - 1, !.t2 = getCorrectedTime(offset) ]

\* The callback of the timer armed by startSyncTimeout.
onSyncTimeout ==
    LET sc == sync_change(FALSE)
    IN [ Session EXCEPT !.sync = sc.sync, !.out = sc.out, !.syncTimeout = NoTimer,
                        !.timers = @ \ { syncTimeout } ]

\* destroy() going through sync_change: silent on a client that is not locked.
onDestroyDeduplicated ==
    [ Session EXCEPT !.syncTimeout = NoTimer, !.sync = FALSE,
                     !.timers = clearTimeout(syncTimeout),
                     !.bound = { }, !.joined = { },
                     !.out = sync_change(FALSE).out ]

\* destroy(): clearTimeout, close both sockets, sync = false, emit sync_changed
onDestroy ==
    [ Session EXCEPT !.syncTimeout = NoTimer, !.sync = FALSE,
                     !.timers = clearTimeout(syncTimeout),
                     !.bound = { }, !.joined = { },
                     !.out = << << "sync_changed", FALSE >> >> ]

-----------------------------------------------------------------------------
(* Actions *)

Apply(r) ==
    /\ sync' = r.sync
    /\ syncTimeout' = r.syncTimeout
    /\ ptpMaster' = r.ptpMaster
    /\ ptpMasterAddress' = r.ptpMasterAddress
    /\ subdomainsFound' = r.subdomainsFound
    /\ domainsFound' = r.domainsFound
    /\ t1' = r.t1 /\ ts1' = r.ts1 /\ t2' = r.t2 /\ ts2' = r.ts2
    /\ offset' = r.offset
    /\ sync_seq' = r.sync_seq
    /\ req_seq' = r.req_seq
    /\ lastSync' = r.lastSync
    /\ immediates' = r.immediates
    /\ sends' = r.sends
    /\ bound' = r.bound
    /\ joined' = r.joined
    /\ lastDelayReq' = r.lastDelayReq
    /\ bindErrors' = r.bindErrors
    /\ timers' = r.timers
    /\ emitted' = r.out

\* A 'message' event of either socket with the handler's result r.
Message(r, evt) ==
    LET completed == Count(r.out, "ptp_time_synced") > 0
    IN /\ Running
       /\ LET after == WorkOf(r, IF completed THEN completions + 1 ELSE completions)
          IN after > Work => after <= MaxWork
       /\ Apply(r)
       /\ completions' = IF completed THEN completions + 1 ELSE completions
       /\ halfExact' = IF completed THEN halfExact /\ offsetUpdate(r.ts2).exact ELSE halfExact
       /\ scenario' = ScenarioStep(evt, r.out)
       /\ UNCHANGED << config, now, destroyed, crashed >>

EventMessageV1(buffer, rinfo) ==
    /\ proto = "v1"
    /\ Message(onEventMessageV1(buffer, rinfo), WireKindEventV1(buffer))

EventMessageV2(buffer, rinfo) ==
    /\ proto = "v2"
    /\ Message(onEventMessageV2(buffer, rinfo), WireKindEventV2(buffer))

GeneralMessageV1(buffer) ==
    /\ proto = "v1"
    /\ Message(onGeneralMessageV1(buffer), WireKindGeneralV1(buffer))

GeneralMessageV2(buffer) ==
    /\ proto = "v2"
    /\ Message(onGeneralMessageV2(buffer), WireKindGeneralV2(buffer))

\* The setImmediate callback runs; the exception of a send() on a closed socket
\* is caught by nobody.
RunImmediate ==
    /\ immediates > 0 /\ ~crashed
    /\ Apply(onImmediate)
    /\ crashed' = destroyed
    /\ scenario' = ScenarioStep("req", << >>)
    /\ UNCHANGED << config, now, destroyed, completions, halfExact >>

SendDone(err) ==
    /\ sends > 0 /\ ~crashed
    /\ Apply(onSendDone(err))
    /\ scenario' = ScenarioStep("sent", << >>)
    /\ UNCHANGED << config, now, destroyed, crashed, completions, halfExact >>

\* The timer runs its callback once, at or after the time it is due.
SyncTimeoutFire ==
    /\ syncTimeout \in timers /\ now >= syncTimeout /\ ~crashed
    /\ Apply(onSyncTimeout)
    /\ scenario' = ScenarioStep("timeout", << >>)
    /\ UNCHANGED << config, now, destroyed, crashed, completions, halfExact >>

Destroy ==
    /\ Running
    /\ Apply(onDestroy)
    /\ destroyed' = TRUE
    /\ scenario' = ScenarioStep("destroy", << >>)
    /\ UNCHANGED << config, now, crashed, completions, halfExact >>

Tick ==
    /\ EnvTicks(env) /\ Work < MaxWork /\ ~crashed
    /\ now' = now + TickMs
    /\ Apply(Session)
    /\ UNCHANGED << config, destroyed, crashed, completions, halfExact,
                    scenario >>

Next ==
    \/ \E in \in V1EventInputs[env] : EventMessageV1(in[1], in[2])
    \/ \E in \in V2EventInputs[env] : EventMessageV2(in[1], in[2])
    \/ \E buffer \in V1GeneralInputs[env] : GeneralMessageV1(buffer)
    \/ \E buffer \in V2GeneralInputs[env] : GeneralMessageV2(buffer)
    \/ RunImmediate
    \/ \E err \in BOOLEAN : SendDone(err)
    \/ SyncTimeoutFire
    \/ Destroy
    \/ Tick

Spec == Init /\ [][Next]_vars

-----------------------------------------------------------------------------
(* The running client with time that goes on.  The clock of a run advances  *)
(* as long as there is work left within the bound or a lock timeout is      *)
(* pending and not yet due; the clock keeps advancing and the runtime runs  *)
(* the callback of a timer that is due.                                     *)

InitLive == Init /\ EnvTicks(env)

TickLive ==
    /\ EnvTicks(env) /\ ~crashed
    /\ Work < MaxWork \/ (syncTimeout \in timers /\ now < syncTimeout)
    /\ now' = now + TickMs
    /\ Apply(Session)
    /\ UNCHANGED << config, destroyed, crashed, completions, halfExact,
                    scenario >>

NextLive ==
    \/ \E in \in V1EventInputs[env] : EventMessageV1(in[1], in[2])
    \/ \E in \in V2EventInputs[env] : EventMessageV2(in[1], in[2])
    \/ \E buffer \in V1GeneralInputs[env] : GeneralMessageV1(buffer)
    \/ \E buffer \in V2GeneralInputs[env] : GeneralMessageV2(buffer)
    \/ RunImmediate
    \/ \E err \in BOOLEAN : SendDone(err)
    \/ SyncTimeoutFire
    \/ Destroy
    \/ TickLive

SpecLive ==
    InitLive /\ [][NextLive]_vars /\ WF_vars(TickLive) /\ WF_vars(SyncTimeoutFire)

-----------------------------------------------------------------------------
(* Codec runs: one call of the constructor, of normalizePtpTime or of the     *)
(* deferred ptp_delay_req(), or one Delay_Resp that completes an exchange, on *)
(* arguments drawn from the sets above.                                       *)

\* Before the constructor has run the fields hold their initialisers.  A
\* client that builds Delay_Reqs has been constructed with the call's
\* arguments, has joined its group and has accepted one-step Syncs of a
\* master that answered none of the req_seq requests sent so far.
InitCodec ==
    /\ env = "timing"
    /\ call \in CodecCalls
    /\ proto = call.proto
    /\ now = StartNow
    /\ destroyed = FALSE /\ crashed = FALSE
    /\ emitted = << >>
    /\ completions = 0 /\ halfExact = TRUE /\ scenario = ScenarioOff
    /\ sync = FALSE /\ syncTimeout = NoTimer /\ timers = { }
    /\ ts1 = call.exchange.ts1 /\ t2 = call.exchange.t2 /\ ts2 = << 0, 0 >>
    /\ offset = call.exchange.offset
    /\ lastSync = 0
    /\ sends = 0
    /\ bindErrors = { }
    /\ IF call.fn \in { "delay_req", "delay_resp" }
       THEN /\ result = Constructed
            /\ addr = construct(call).addr
            /\ subdomainBuf = construct(call).subdomainBuf
            /\ ptp_domain = construct(call).ptp_domain
            /\ minSyncInterval = construct(call).minSyncInterval
            /\ bound = BothBound(addr)
            /\ joined = BothJoined(proto, ptp_domain, addr)
            /\ ptpMaster = << SourceA, IF proto = "v1" THEN 1 ELSE 0 >>
            /\ ptpMasterAddress = AddressA
            /\ subdomainsFound = IF proto = "v1" THEN { StripNul(subdomainBuf) } ELSE { }
            /\ domainsFound = IF proto = "v2" THEN { ptp_domain } ELSE { }
            /\ t1 = IF call.fn = "delay_resp" THEN call.exchange.t1 ELSE << 1, 0 >>
            /\ sync_seq = SyncSeq
            /\ req_seq \in IF call.fn = "delay_resp" THEN { 1 } ELSE ReqSeqs
            /\ immediates \in IF call.fn = "delay_resp" THEN { 0 } ELSE 1..MaxPending
            /\ lastDelayReq = IF req_seq = 0 THEN << >> ELSE << delayReqSend(req_seq) >>
       ELSE /\ result = NoResult
            /\ addr = DefaultAddr(proto)
            /\ subdomainBuf = DefaultSubdomainBuf
            /\ ptp_domain = DefaultDomain
            /\ minSyncInterval = DEFAULT_INTERVAL
            /\ bound = { } /\ joined = { }
            /\ ptpMaster = NoMaster
            /\ ptpMasterAddress = ""
            /\ subdomainsFound = { } /\ domainsFound = { }
            /\ t1 = << 0, 0 >>
            /\ sync_seq = 0
            /\ req_seq = 0
            /\ immediates = 0
            /\ lastDelayReq = << >>

Normalize ==
    /\ call.fn = "normalize" /\ result = NoResult
    /\ result' = [ kind |-> "time", time |-> normalizePtpTime(call.s, call.ns) ]
    /\ Apply(Session)
    /\ UNCHANGED << env, proto, subdomainBuf, ptp_domain, minSyncInterval, addr, call,
                    now, destroyed, crashed, completions, halfExact, scenario >>

\* new PTPv1Client(iface, subdomain, interval) / new PTPv2Client(iface, domain,
\* interval): throws before any field is assigned, or configures the client
\* and binds both sockets; an exception of the catch block's emit leaves the
\* constructor, and the caller gets no instance.
Construct ==
    /\ call.fn = "construct" /\ result = NoResult
    /\ IF construct(call).thrown
       THEN /\ result' = Thrown
            /\ Apply(Session)
            /\ UNCHANGED << subdomainBuf, ptp_domain, minSyncInterval, addr >>
       ELSE LET b == bindBoth(construct(call).addr, call.binds)
            IN /\ result' = IF b.thrown THEN Unhandled ELSE Constructed
               /\ addr' = construct(call).addr
               /\ subdomainBuf' = construct(call).subdomainBuf
               /\ ptp_domain' = construct(call).ptp_domain
               /\ minSyncInterval' = construct(call).minSyncInterval
               /\ Apply([ Session EXCEPT
                            !.bound = b.bound,
                            !.bindErrors = b.errors,
                            !.out = IF bindThrew(call.binds) /\ ~b.thrown
                                    THEN << << "error", "bind" >> >> ELSE << >> ])
    /\ UNCHANGED << env, proto, call, now, destroyed, crashed, completions, halfExact,
                    scenario >>

\* The 'listening' handler of a socket: addMembership(<group>, this.addr), then
\* emit('listening', ...).
Listening(socket) ==
    /\ call.fn = "construct" /\ result = Constructed
    /\ \E b \in bound : b[1] = socket
    /\ \A j \in joined : j[1] # socket
    /\ Apply([ Session EXCEPT
                 !.joined = @ \cup { << socket, Group(proto, ptp_domain), addr >> },
                 !.out = << << "listening", socket >> >> ])
    /\ UNCHANGED << config, now, destroyed, crashed, completions, halfExact, scenario >>

\* The 'error' handler of a socket whose bind failed: (err) => this.emit('error', err),
\* to the listener the caller registered once it held the instance.
SocketError(socket) ==
    /\ call.fn = "construct" /\ result = Constructed
    /\ << socket, "pending" >> \in bindErrors
    /\ Apply([ Session EXCEPT
                 !.bindErrors = (@ \ { << socket, "pending" >> })
                                    \cup { << socket, "delivered" >> },
                 !.out = << << "error", "bind" >> >> ])
    /\ UNCHANGED << config, now, destroyed, crashed, completions, halfExact, scenario >>

\* The general socket's 'message' handler on the Delay_Resp that answers the
\* Delay_Req of the exchange; the result keeps the offset it started from.
DelayResp ==
    /\ call.fn = "delay_resp" /\ result = Constructed
    /\ result' = [ kind |-> "completed", time |-> offset ]
    /\ Apply(IF proto = "v1"
             THEN onGeneralMessageV1(V1Buf(V1_TS_LEN, subdomainBuf, MSG_DELAY_RESP, SourceA,
                                           req_seq, 0, call.exchange.ts2))
             ELSE onGeneralMessageV2(V2Buf(V2_TS_LEN, V2_DELAY_RESP, V2_VERSION, ptp_domain,
                                           0, SourceA, req_seq, call.exchange.ts2)))
    /\ completions' = completions + 1
    /\ halfExact' = (halfExact /\ offsetUpdate(call.exchange.ts2).exact)
    /\ UNCHANGED << env, proto, subdomainBuf, ptp_domain, minSyncInterval, addr, call,
                    now, destroyed, crashed, scenario >>

NextCodec ==
    \/ Normalize
    \/ DelayResp
    \/ Construct
    \/ \E socket \in { "event", "general" } : Listening(socket)
    \/ \E socket \in { "event", "general" } : SocketError(socket)
    \/ RunImmediate

SpecCodec == InitCodec /\ [][NextCodec]_vars

-----------------------------------------------------------------------------
(* Well-formedness of the model itself *)

TypeOK ==
    /\ proto \in { "v1", "v2" }
    /\ sync \in BOOLEAN
    /\ req_seq \in 0..(SEQ_MOD - 1)
    /\ sync_seq \in 0..(SEQ_MOD - 1)
    /\ immediates \in Nat /\ sends \in Nat
    /\ now \in StartNow..EndNow
    /\ syncTimeout = NoTimer \/ syncTimeout > StartNow

\* Every halving of the offset computation was exact: the integers of the
\* model agree with the program's doubles.
HalvingExact == halfExact

-----------------------------------------------------------------------------
(* Properties.  A property of one handler is stated in every reachable state *)
(* for every datagram the network can deliver: the case reads the datagram's  *)
(* wire fields, r is what the handler makes of it in that state.              *)

Registry == IF proto = "v1" THEN subdomainsFound ELSE domainsFound
RegistryOf(r) == IF proto = "v1" THEN r.subdomainsFound ELSE r.domainsFound
RegistryEvent == IF proto = "v1" THEN "subdomains" ELSE "domains"
ConfiguredValue == IF proto = "v1" THEN StripNul(subdomainBuf) ELSE ptp_domain

\* short: no header; matches: the domain/subdomain filter; value: what the
\* header carries for the registry.
\* The datagrams the client's network can deliver to each socket.
EventInputs == IF proto = "v1" THEN V1EventInputs[env] ELSE V2EventInputs[env]
GeneralInputs == IF proto = "v1" THEN V1GeneralInputs[env] ELSE V2GeneralInputs[env]

EventCase(in) ==
    IF proto = "v1"
    THEN   [ short |-> in[1].len < HEADER_LEN,
             matches |-> in[1].subdomain = subdomainBuf,
             isSync |-> in[1].messageType = MSG_SYNC,
             twoStep |-> BitSet(in[1].flags, FLAG_ASSIST),
             hasTs |-> in[1].len >= V1_TS_LEN,
             value |-> decodeSubdomain(in[1]),
             source |-> << in[1].sourceUuid, in[1].sourcePortId >>,
             address |-> in[2].address,
             sequence |-> in[1].sequenceId,
             r |-> onEventMessageV1(in[1], in[2]) ]
    ELSE   [ short |-> in[1].len < HEADER_LEN,
             matches |-> in[1].version = V2_VERSION /\ in[1].domain = ptp_domain,
             isSync |-> in[1].type = V2_SYNC,
             twoStep |-> BitSet(in[1].flags, V2_TWO_STEP),
             hasTs |-> in[1].len >= V2_TS_LEN,
             value |-> in[1].domain,
             source |-> << in[1].clockIdentity, 0 >>,
             address |-> in[2].address,
             sequence |-> in[1].sequence,
             r |-> onEventMessageV2(in[1], in[2]) ]

GeneralCase(b) ==
    IF proto = "v1"
    THEN   [ short |-> b.len < HEADER_LEN,
             matches |-> b.subdomain = subdomainBuf,
             isFollowUp |-> b.messageType = MSG_FOLLOW_UP,
             isDelayResp |-> b.messageType = MSG_DELAY_RESP,
             hasTs |-> b.len >= V1_TS_LEN,
             value |-> decodeSubdomain(b),
             source |-> << b.sourceUuid, b.sourcePortId >>,
             sequence |-> b.sequenceId,
             r |-> onGeneralMessageV1(b) ]
    ELSE   [ short |-> b.len < HEADER_LEN,
             matches |-> b.version = V2_VERSION /\ b.domain = ptp_domain,
             isFollowUp |-> b.type = V2_FOLLOW_UP,
             isDelayResp |-> b.type = V2_DELAY_RESP,
             hasTs |-> b.len >= V2_TS_LEN,
             value |-> b.domain,
             source |-> << b.clockIdentity, 0 >>,
             sequence |-> b.sequence,
             r |-> onGeneralMessageV2(b) ]

\* A Sync that passes the filter; a Delay_Resp that answers the last request.
AcceptedSync(c) == ~c.short /\ c.isSync /\ c.matches
MatchingDelayResp(g) ==
    ~g.short /\ g.hasTs /\ g.matches /\ g.isDelayResp /\ g.sequence = req_seq

\* The handler left everything the sync engine works with as it was.
SyncUntouched(r) ==
    /\ r.sync = sync /\ r.syncTimeout = syncTimeout
    /\ r.ptpMaster = ptpMaster /\ r.ptpMasterAddress = ptpMasterAddress
    /\ r.t1 = t1 /\ r.ts1 = ts1 /\ r.t2 = t2 /\ r.ts2 = ts2
    /\ r.offset = offset /\ r.lastSync = lastSync
    /\ r.sync_seq = sync_seq /\ r.req_seq = req_seq
    /\ r.immediates = immediates /\ r.sends = sends

OnlyRegistryEvents(out) == \A i \in 1..Len(out) : out[i][1] = RegistryEvent

\* C1: from a fresh client, a two-step Sync that passes the filter schedules
\* nothing by itself, the Follow_Up with its sequence defers one Delay_Req,
\* the deferred send builds request 1, and the Delay_Resp with that sequence
\* leaves the client locked with exactly one sync_changed(true) and exactly
\* one ptp_time_synced emitted over the whole exchange.
TwoStepExchange ==
    /\ scenario.phase = "sync2" => immediates = 0 /\ ~sync
    /\ scenario.phase = "fu" => immediates = 1
    /\ scenario.phase = "req2" => req_seq = 1 /\ immediates = 0
    /\ scenario.phase = "done2" =>
           sync /\ scenario.trues = 1 /\ scenario.synceds = 1

TwoStepExchangeDone == scenario.phase = "done2" /\ sync

\* C2: in any state a Sync with the two-step flag clear that passes the
\* filter, carries a timestamp and passes the rate-limit guard defers one
\* Delay_Req itself; a Delay_Resp with the request's sequence leaves the
\* client locked and emits sync_changed(true) if it was not; from a fresh
\* client the exchange Sync, Delay_Req, Delay_Resp ends locked with exactly
\* one sync_changed(true).
OneStepExchange ==
    /\ \A in \in EventInputs : LET c == EventCase(in) IN
           (AcceptedSync(c) /\ ~c.twoStep /\ c.hasTs /\ now - lastSync > minSyncInterval)
               => c.r.immediates = immediates + 1
    /\ \A b \in GeneralInputs : LET g == GeneralCase(b) IN
           MatchingDelayResp(g)
               => g.r.sync /\ (sync \/ CountValue(g.r.out, "sync_changed", TRUE) = 1)
    /\ scenario.phase = "sync1" => immediates = 1
    /\ scenario.phase = "done1" => sync /\ scenario.trues = 1

OneStepExchangeDone == scenario.phase = "done1" /\ sync

\* C3 (as amended): a locked client has its timeout due 2 x minSyncInterval
\* after the last completed exchange; the lock state goes from true to false
\* only in the timeout callback, at or after that deadline, with exactly one
\* sync_changed(false) and no timeout left pending, or earlier when a Sync of
\* another master is accepted or the client is destroyed; it goes from false
\* to true only when an exchange completes.
LockTimeout ==
    [][ /\ sync' => syncTimeout' = lastSync' + 2 * minSyncInterval
        /\ (sync /\ ~sync') =>
               \/ /\ now >= lastSync + 2 * minSyncInterval
                  /\ emitted' = << << "sync_changed", FALSE >> >>
                  /\ syncTimeout' = NoTimer
               \/ ptpMaster' # ptpMaster
               \/ destroyed'
        /\ (~sync /\ sync') => completions' = completions + 1 ]_vars

\* The timeout has unlocked the client: at the deadline, not re-armed.
LockTimedOut ==
    /\ ~sync /\ syncTimeout = NoTimer /\ ~destroyed
    /\ emitted = << << "sync_changed", FALSE >> >>
    /\ now >= lastSync + 2 * minSyncInterval

\* C3 (as stated): after the exchange of either scenario has completed, and
\* while no further exchange has, the client is locked until the deadline.
LockTimeoutUnqualified ==
    (scenario.phase \in { "done1", "done2", "changed" }
        /\ now < lastSync + 2 * minSyncInterval) => sync

\* C4: a completed exchange emits sync_changed(true) exactly when the client
\* was not locked, and the timeout emits sync_changed(false) exactly when it
\* was; so completions that find the client locked, with no timeout, master
\* change or destroy in between, emit no further sync_changed.  No datagram
\* on the event socket emits sync_changed.
SyncChangedDeduplicated ==
    /\ \A b \in GeneralInputs : LET g == GeneralCase(b) IN
           /\ CountValue(g.r.out, "sync_changed", TRUE)
                  = (IF ~sync /\ g.r.sync THEN 1 ELSE 0)
           /\ CountValue(g.r.out, "sync_changed", FALSE) = 0
           /\ MatchingDelayResp(g) =>
                  /\ Count(g.r.out, "ptp_time_synced") = 1
                  /\ sync => Count(g.r.out, "sync_changed") = 0
    /\ \A in \in EventInputs : LET c == EventCase(in) IN Count(c.r.out, "sync_changed") = 0
    /\ onSyncTimeout.out = (IF sync THEN << << "sync_changed", FALSE >> >> ELSE << >>)

\* A second exchange completed on a locked client and emitted no sync_changed.
CompletedWhileLocked ==
    /\ completions = 2 /\ sync
    /\ Count(emitted, "ptp_time_synced") = 1
    /\ Count(emitted, "sync_changed") = 0

\* C5: ptp_master_changed is emitted, once, by exactly the Syncs that pass the
\* filter and whose source identity differs from the stored one (every
\* identity differs from that of a client without master); no other datagram,
\* callback or call emits it; after an accepted Sync the stored identity and
\* address are that Sync's, after any other datagram they are unchanged.
MasterChangeDetection ==
    /\ \A in \in EventInputs : LET c == EventCase(in) IN
           /\ Count(c.r.out, "ptp_master_changed")
                  = (IF AcceptedSync(c) /\ c.source # ptpMaster THEN 1 ELSE 0)
           /\ \A i \in 1..Len(c.r.out) :
                  c.r.out[i][1] = "ptp_master_changed"
                      => c.r.out[i][2] = c.source /\ c.r.out[i][3] = c.address
           /\ AcceptedSync(c) => c.r.ptpMaster = c.source
           /\ ~AcceptedSync(c) => c.r.ptpMaster = ptpMaster
    /\ \A b \in GeneralInputs : LET g == GeneralCase(b) IN
           Count(g.r.out, "ptp_master_changed") = 0 /\ g.r.ptpMaster = ptpMaster
    /\ \A out \in { onSyncTimeout.out, onDestroy.out, onSendDone(TRUE).out,
                    onSendDone(FALSE).out } :
           Count(out, "ptp_master_changed") = 0
    /\ ptpMaster = NoMaster => \A in \in EventInputs : LET c == EventCase(in) IN c.source # ptpMaster

\* A Sync of the second master was accepted by a client that had built a
\* request for another one.
MasterChangedAgain ==
    /\ Count(emitted, "ptp_master_changed") = 1
    /\ emitted[Len(emitted)][2] = ptpMaster
    /\ ptpMaster[1] = SourceB
    /\ req_seq > 0 /\ sync_seq = SyncSeq

\* C6: a Sync of a differing identity that passes the filter leaves the
\* client unlocked and its ptp_master_changed carries lock state false; and
\* when, after a completed exchange, the master changes and a Delay_Resp
\* arrives before any Delay_Req was built for the new master, the client is
\* still unlocked.
MasterChangeForcesUnlock ==
    /\ \A in \in EventInputs : LET c == EventCase(in) IN
           (AcceptedSync(c) /\ c.source # ptpMaster) =>
               /\ ~c.r.sync
               /\ \A i \in 1..Len(c.r.out) :
                      c.r.out[i][1] = "ptp_master_changed" => c.r.out[i][4] = FALSE
    /\ scenario.phase \in { "changed", "stale" } => ~sync

\* C7 (as amended): a datagram on the event socket whose domain/subdomain
\* (or, modern protocol, version) does not match the filter, header complete,
\* has its value in the registry afterwards and changes nothing else: at most
\* the registry's notification is emitted.  A datagram shorter than the header
\* changes nothing at all, the registry included, and emits nothing.
FilteredSyncFeedsRegistry ==
    \A in \in EventInputs : LET c == EventCase(in) IN
        /\ (~c.short /\ ~c.matches) =>
               /\ c.value \in RegistryOf(c.r)
               /\ SyncUntouched(c.r)
               /\ OnlyRegistryEvents(c.r.out)
        /\ c.short => c.r = Session

\* A foreign value is in the registry of a client that has seen no master.
ForeignValueRegistered ==
    /\ ptpMaster = NoMaster /\ sync_seq = 0 /\ immediates = 0 /\ ~sync
    /\ \E v \in Registry : v # ConfiguredValue
    /\ Count(emitted, RegistryEvent) = 1

\* C7 (as stated): a datagram on the event socket that is shorter than the
\* header, or does not match the filter, has its value in the registry
\* afterwards.
ShortSyncFeedsRegistry ==
    \A in \in EventInputs : LET c == EventCase(in) IN
        (c.short \/ ~c.matches) => c.value \in RegistryOf(c.r)

\* C8: no handler, callback or call removes a value from the registry; after
\* a datagram with a complete header, on either socket, the registry is the
\* old one with the datagram's value added, whether or not the filter matches;
\* the registry's notification is emitted once by exactly the datagrams whose
\* value was not in the registry, and carries the new registry.
RegistryStep(short, value, r) ==
    /\ Registry \subseteq RegistryOf(r)
    /\ RegistryOf(r) = (IF short THEN Registry ELSE Registry \cup { value })
    /\ Count(r.out, RegistryEvent) = (IF ~short /\ value \notin Registry THEN 1 ELSE 0)
    /\ \A i \in 1..Len(r.out) :
           r.out[i][1] = RegistryEvent => r.out[i][2] = Registry \cup { value }

RegistryAppendOnly ==
    /\ \A in \in EventInputs : LET c == EventCase(in) IN RegistryStep(c.short, c.value, c.r)
    /\ \A b \in GeneralInputs : LET g == GeneralCase(b) IN RegistryStep(g.short, g.value, g.r)
    /\ \A err \in BOOLEAN :
           RegistryOf(onSendDone(err)) = Registry /\ Count(onSendDone(err).out, RegistryEvent) = 0
    /\ RegistryOf(onSyncTimeout) = Registry /\ Count(onSyncTimeout.out, RegistryEvent) = 0
    /\ RegistryOf(onDestroy) = Registry /\ Count(onDestroy.out, RegistryEvent) = 0

\* The registry holds three values and the last one was just notified.
RegistryGrown ==
    /\ Cardinality(Registry) = 3
    /\ Count(emitted, RegistryEvent) = 1
    /\ emitted[1] = << RegistryEvent, Registry >>

\* C9: on both sockets of the legacy client a datagram whose 16 subdomain
\* bytes differ from the configured, NUL-padded ones is not processed for
\* sync, be its name a strict prefix ("_DFL") or a strict superstring
\* ("_DFLTX") of the configured "_DFLT"; the datagrams that are processed
\* carry exactly the configured bytes.
SubdomainFilterExact ==
    proto = "v1" =>
        /\ \A in \in V1EventInputs[env] :
               LET r == onEventMessageV1(in[1], in[2])
               IN /\ in[1].subdomain # subdomainBuf
                        => SyncUntouched(r) /\ OnlyRegistryEvents(r.out)
                  /\ ~(SyncUntouched(r) /\ OnlyRegistryEvents(r.out))
                        => in[1].subdomain = encodeSubdomain(NameDFLT)
        /\ \A b \in V1GeneralInputs[env] :
               LET r == onGeneralMessageV1(b)
               IN /\ b.subdomain # subdomainBuf
                        => SyncUntouched(r) /\ OnlyRegistryEvents(r.out)
                  /\ ~(SyncUntouched(r) /\ OnlyRegistryEvents(r.out))
                        => b.subdomain = encodeSubdomain(NameDFLT)

\* Prefix and superstring were both seen, and the client has no master, no
\* request and no lock from them.
PrefixAndSuperstringRejected ==
    /\ proto = "v1"
    /\ subdomainsFound = { NameDFL, NameDFLTX }
    /\ ptpMaster = NoMaster /\ immediates = 0 /\ req_seq = 0 /\ ~sync /\ lastSync = 0

\* C10 (as amended): a Follow_Up whose sequence differs from sync_seq defers
\* no Delay_Req and leaves t1 unchanged; a Delay_Resp whose sequence differs
\* from req_seq leaves ts2, offset, lastSync, the lock state and the pending
\* timeout unchanged; neither emits an error or any notification other than
\* the registry's.
SequenceMismatchIgnored ==
    \A b \in GeneralInputs : LET g == GeneralCase(b) IN
        /\ (g.isFollowUp /\ g.sequence # sync_seq) =>
               /\ g.r.immediates = immediates /\ g.r.t1 = t1
               /\ OnlyRegistryEvents(g.r.out)
        /\ (g.isDelayResp /\ g.sequence # req_seq) =>
               /\ g.r.ts2 = ts2 /\ g.r.offset = offset /\ g.r.lastSync = lastSync
               /\ g.r.sync = sync /\ g.r.syncTimeout = syncTimeout
               /\ OnlyRegistryEvents(g.r.out)

\* A first datagram of the configured domain was a mismatch: it is in the
\* registry and nothing else happened.
MismatchOnlyRegistered ==
    /\ env = "timing"
    /\ Registry = { ConfiguredValue }
    /\ Count(emitted, RegistryEvent) = 1
    /\ immediates = 0 /\ req_seq = 0 /\ ~sync /\ lastSync = 0 /\ t1 = << 0, 0 >>

\* C10 (as stated): ... and emits no notification and no error.
SequenceMismatchSilent ==
    \A b \in GeneralInputs : LET g == GeneralCase(b) IN
        /\ (g.isFollowUp /\ g.sequence # sync_seq) =>
               g.r.immediates = immediates /\ g.r.t1 = t1
        /\ (g.isDelayResp /\ g.sequence # req_seq) =>
               /\ g.r.ts2 = ts2 /\ g.r.offset = offset /\ g.r.lastSync = lastSync
               /\ g.r.sync = sync
               /\ g.r.out = << >>

\* C11: once a master is stored, a Follow_Up or Delay_Resp on the general
\* socket whose source identity differs from the stored master's leaves t1,
\* ts2, offset and the lock state unchanged and defers no Delay_Req.
IdentityMismatchIgnored ==
    ptpMaster # NoMaster =>
        \A b \in GeneralInputs : LET g == GeneralCase(b) IN
            ((g.isFollowUp \/ g.isDelayResp) /\ g.source # ptpMaster) =>
                /\ g.r.t1 = t1 /\ g.r.ts2 = ts2 /\ g.r.offset = offset
                /\ g.r.sync = sync
                /\ g.r.immediates = immediates

\* C12: the completion callback of a failed send emits exactly one error and
\* nothing else, leaves t1, ts1, t2, ts2, offset, lastSync and the lock state
\* (with its timeout) as they are, and neither issues nor defers another send;
\* issuing the send had left the same fields as they were, so they are what
\* they were before the send was issued unless another datagram changed them.
SendFailureKeepsState ==
    LET kept(r) == /\ r.t1 = t1 /\ r.ts1 = ts1 /\ r.t2 = t2 /\ r.ts2 = ts2
                   /\ r.offset = offset /\ r.lastSync = lastSync
                   /\ r.sync = sync /\ r.syncTimeout = syncTimeout
    IN /\ sends > 0 =>
              /\ kept(onSendDone(TRUE))
              /\ onSendDone(TRUE).out = << << "error", "send" >> >>
              /\ onSendDone(TRUE).sends = sends - 1
              /\ onSendDone(TRUE).immediates = immediates
              /\ onSendDone(TRUE).req_seq = req_seq
       /\ immediates > 0 => kept(onImmediate) /\ onImmediate.out = << >>

\* The first Delay_Req failed to send: one error, nothing pending, and the
\* Sync's receive time still stored for a later attempt.
SendFailed ==
    /\ emitted = << << "error", "send" >> >>
    /\ req_seq = 1 /\ sends = 0 /\ immediates = 0
    /\ t2 = << 0, 0 >> /\ ~sync /\ lastSync = 0
    /\ now > StartNow

\* C13: the step that destroys the client leaves it unlocked with no timeout
\* pending and no socket bound, and emits exactly sync_changed(false),
\* whatever the lock state was; from then on the client stays destroyed and unlocked, no timeout is
\* pending (so none fires), no datagram is handled (master, sequence,
\* registry, offset and lastSync stay as they are) and neither sync_changed
\* nor ptp_time_synced is emitted again.
Teardown ==
    [][ /\ (~destroyed /\ destroyed') =>
               /\ ~sync' /\ syncTimeout' = NoTimer
               /\ bound # { } /\ bound' = { } /\ joined' = { }
               /\ emitted' = << << "sync_changed", FALSE >> >>
        /\ destroyed =>
               /\ destroyed' /\ ~sync' /\ syncTimeout' = NoTimer
               /\ Count(emitted', "sync_changed") = 0
               /\ Count(emitted', "ptp_time_synced") = 0
               /\ ptpMaster' = ptpMaster /\ sync_seq' = sync_seq
               /\ subdomainsFound' = subdomainsFound /\ domainsFound' = domainsFound
               /\ offset' = offset /\ lastSync' = lastSync
               /\ bound' = { } /\ joined' = { } ]_vars

\* A client that never locked was destroyed and emitted sync_changed(false).
DestroyedWhileUnlocked ==
    /\ destroyed /\ completions = 0 /\ ~sync /\ syncTimeout = NoTimer
    /\ emitted = << << "sync_changed", FALSE >> >>

\* C16: in every reachable state the nanoseconds of the stored offset, of the
\* ptp_time query and of the time carried by every ptp_time_synced just
\* emitted lie in [0, 1e9).
NanosInRange ==
    /\ offset[2] \in 0..(NS_PER_S - 1)
    /\ ptp_time[2] \in 0..(NS_PER_S - 1)
    /\ \A i \in 1..Len(emitted) :
           emitted[i][1] = "ptp_time_synced" => emitted[i][2][2] \in 0..(NS_PER_S - 1)

\* The exchange of a fresh client completed with a negative delta: the offset
\* went below zero with a nanosecond part that had to be borrowed for.
NegativeDeltaCompleted ==
    /\ scenario.phase \in { "done1", "done2" }
    /\ completions = 1 /\ Count(emitted, "ptp_time_synced") = 1
    /\ offset[1] < 0 /\ offset[2] > 0

\* C24: t2 changes only in a step that completes a send issued before,
\* without error, and that touches neither the deferred work nor t1, ts1 or
\* the Sync sequence; it is then the corrected time of that moment.  A step
\* that defers a Delay_Req (an accepted Follow_Up or one-step Sync), the
\* step that issues the send and the completion of a failed send leave t2 as
\* it is; the completion of a successful send sets it.
SendTimeAfterConfirm ==
    [][ /\ t2' # t2 =>
               /\ sends > 0 /\ sends' = sends - 1
               /\ Count(emitted', "error") = 0
               /\ immediates' = immediates
               /\ t1' = t1 /\ ts1' = ts1 /\ sync_seq' = sync_seq
        /\ immediates' > immediates => t2' = t2
        /\ sends' > sends => t2' = t2
        /\ (sends' < sends /\ Count(emitted', "error") > 0) => t2' = t2
        /\ (sends' < sends /\ Count(emitted', "error") = 0) =>
               t2' = getCorrectedTime(offset) ]_vars

\* The send of the first Delay_Req of an exchange was confirmed some time
\* after the client started, and t2 holds the corrected time of that moment.
SendTimeCaptured ==
    /\ scenario.phase \in { "req1", "req2" }
    /\ req_seq = 1 /\ sends = 0 /\ immediates = 0
    /\ emitted = << >>
    /\ t2 # << 0, 0 >> /\ t2 = getCorrectedTime(offset)

\* C25: a one-step Sync that passes the filter, or a Follow_Up, handled when
\* now - lastSync <= minSyncInterval defers no Delay_Req, sends nothing and
\* leaves t1 (and the request sequence) unchanged, whatever is in flight; a
\* two-step Sync that passes the filter records the corrected receive time
\* in ts1 and its sequence in sync_seq whatever the guard says, and defers
\* nothing.
RateLimitGuard ==
    [](/\ \A in \in EventInputs : LET c == EventCase(in) IN
              /\ (AcceptedSync(c) /\ ~c.twoStep /\ now - lastSync <= minSyncInterval) =>
                     /\ c.r.immediates = immediates /\ c.r.sends = sends
                     /\ c.r.t1 = t1 /\ c.r.req_seq = req_seq
              /\ (AcceptedSync(c) /\ c.twoStep) =>
                     /\ c.r.ts1 = getCorrectedTime(offset)
                     /\ c.r.sync_seq = c.sequence
                     /\ c.r.immediates = immediates
       /\ \A b \in GeneralInputs : LET g == GeneralCase(b) IN
              (g.isFollowUp /\ now - lastSync <= minSyncInterval) =>
                  /\ g.r.immediates = immediates /\ g.r.sends = sends
                  /\ g.r.t1 = t1 /\ g.r.req_seq = req_seq)

\* With the first exchange completed and nothing in flight, a one-step Sync
\* or Follow_Up of the same master arrived exactly one interval after the
\* completion and was dropped by the guard.
GuardDroppedAtInterval ==
    /\ scenario.phase = "guarded"
    /\ sync /\ completions = 1
    /\ now - lastSync = minSyncInterval
    /\ immediates = 0 /\ sends = 0 /\ req_seq = 1

\* C26: at most one timer is pending at any time, the one the client holds,
\* and it is due 2 x minSyncInterval after the last completed exchange; a
\* step that completes an exchange leaves exactly one timer pending, due
\* 2 x minSyncInterval from now, whatever was pending before; any other step
\* that changes the pending timers leaves none; and a locked client whose
\* master stays and that is not destroyed unlocks only when at least
\* 2 x minSyncInterval have passed since the last completed exchange.
SingleLockTimeout ==
    /\ [](/\ Cardinality(timers) <= 1
          /\ timers = (IF syncTimeout = NoTimer THEN { } ELSE { syncTimeout })
          /\ syncTimeout # NoTimer => syncTimeout = lastSync + 2 * minSyncInterval)
    /\ [][ /\ completions' = completions + 1 => timers' = { now + 2 * minSyncInterval }
           /\ (completions' = completions /\ timers' # timers) => timers' = { }
           /\ (sync /\ ~sync' /\ ptpMaster' = ptpMaster /\ ~destroyed') =>
                  now >= lastSync + 2 * minSyncInterval ]_vars

\* An exchange completed again while the timeout armed by the previous
\* completion was pending and not yet due: that timer is gone, the one
\* pending is due 2 x minSyncInterval from now, and the client is still
\* locked.
TimeoutRearmed ==
    /\ scenario.phase = "renewed"
    /\ completions = 2 /\ sync
    /\ lastSync = now
    /\ timers = { now + 2 * minSyncInterval }

\* Datagram lengths around every length check of the handlers of protocol p.
Lengths(p) ==
    { 0, HEADER_LEN - 1, HEADER_LEN }
    \cup IF p = "v1" THEN { V1_TS_LEN - 1, V1_TS_LEN, V1_TS_LEN + 1 }
         ELSE { V2_TS_LEN - 1, V2_TS_LEN, V2_TS_LEN + 1 }

\* Every datagram of every network, cut or padded to each of these lengths.
AnyEventInputsOf ==
    [ p \in { "v1", "v2" } |->
        { << [ in[1] EXCEPT !.len = l ], in[2] >> :
            in \in UNION { IF p = "v1" THEN V1EventInputs[e] ELSE V2EventInputs[e] :
                             e \in Envs },
            l \in Lengths(p) } ]

AnyGeneralInputsOf ==
    [ p \in { "v1", "v2" } |->
        { [ b EXCEPT !.len = l ] :
            b \in UNION { IF p = "v1" THEN V1GeneralInputs[e] ELSE V2GeneralInputs[e] :
                            e \in Envs },
            l \in Lengths(p) } ]

AnyEventInputs == AnyEventInputsOf[proto]
AnyGeneralInputs == AnyGeneralInputsOf[proto]

InsideBuffer(reads, buffer) == \A rd \in reads : rd[1] >= 0 /\ rd[1] + rd[2] <= buffer.len

\* C23: in every reachable state, for every datagram of every length on
\* either socket, each read of the handler lies inside the buffer, so the
\* handler throws nothing; and no datagram the network delivers, cut short
\* or not, makes its handler emit an error.
PacketsCannotCrash ==
    [](/\ \A in \in AnyEventInputs : InsideBuffer(eventReads(in[1]), in[1])
       /\ \A b \in AnyGeneralInputs : InsideBuffer(generalReads(b), b)
       /\ \A in \in EventInputs :
              Count((IF proto = "v1" THEN onEventMessageV1(in[1], in[2])
                     ELSE onEventMessageV2(in[1], in[2])).out, "error") = 0
       /\ \A b \in GeneralInputs :
              Count((IF proto = "v1" THEN onGeneralMessageV1(b)
                     ELSE onGeneralMessageV2(b)).out, "error") = 0)

\* The first datagram of a client was a one-step Sync cut short of its
\* timestamp, with the rate-limit guard open: its master and sequence were
\* taken, no timestamp was read and nothing was deferred or reported.
TruncatedSyncDropped ==
    /\ scenario.phase = "trunc"
    /\ ptpMaster # NoMaster /\ sync_seq = SyncSeq
    /\ t1 = << 0, 0 >> /\ immediates = 0
    /\ Count(emitted, "error") = 0 /\ ~crashed

\* The packet is one the handler accepts as the start of a Delay_Req: a
\* one-step Sync that passes the filter and the rate limit and carries its
\* timestamp, or a Follow_Up with a timestamp that passes the filter, carries
\* the sequence of the last Sync and passes the rate limit.
StartsDelayReq(c) ==
    /\ AcceptedSync(c) /\ ~c.twoStep /\ c.hasTs
    /\ now - lastSync > minSyncInterval

FollowUpStartsDelayReq(g) ==
    /\ ~g.short /\ g.matches /\ g.hasTs /\ g.isFollowUp
    /\ g.sequence = sync_seq /\ now - lastSync > minSyncInterval

\* C28: a packet handler defers one send for an accepted one-step Sync or
\* Follow_Up and none for any other packet (a two-step Sync, a Delay_Resp, a
\* dropped packet), and hands nothing to the transport itself; each deferred
\* callback of a client that has not been destroyed hands exactly one
\* Delay_Req to send(), and no other step hands one.
DeferredSendOnce ==
    /\ [](/\ \A in \in EventInputs : LET c == EventCase(in) IN
                /\ c.r.immediates = immediates + (IF StartsDelayReq(c) THEN 1 ELSE 0)
                /\ c.r.sends = sends /\ c.r.lastDelayReq = lastDelayReq
          /\ \A b \in GeneralInputs : LET g == GeneralCase(b) IN
                /\ g.r.immediates = immediates + (IF FollowUpStartsDelayReq(g) THEN 1 ELSE 0)
                /\ g.r.sends = sends /\ g.r.lastDelayReq = lastDelayReq)
    /\ [][ IF immediates' < immediates
           THEN /\ immediates' = immediates - 1
                /\ ~destroyed =>
                       /\ sends' = sends + 1
                       /\ lastDelayReq' = << delayReqSend(req_seq') >>
           ELSE /\ immediates' <= immediates + 1
                /\ sends' <= sends
                /\ lastDelayReq' = lastDelayReq ]_vars

\* The Follow_Up of the two-step exchange was accepted and its one Delay_Req
\* is with the transport, the send not yet confirmed.
DelayReqHandedOnce ==
    /\ scenario.phase = "req2"
    /\ immediates = 0 /\ sends = 1 /\ req_seq = 1
    /\ lastDelayReq = << delayReqSend(1) >>

\* C29: a datagram with a complete header that does not match the filter
\* (the subdomain; the version, which must be 2, and the domain) or whose
\* message type its socket does not handle (anything but Sync on the event
\* socket, anything but Follow_Up and Delay_Resp on the general socket)
\* leaves the master record, sync_seq, req_seq, t1, ts1, t2, ts2, offset,
\* lastSync and sync as they were, defers and sends nothing, and emits at most
\* the registry's notification.
FilteredPacketsInert ==
    [](/\ \A in \in EventInputs : LET c == EventCase(in) IN
              (~c.short /\ (~c.matches \/ ~c.isSync)) =>
                  SyncUntouched(c.r) /\ OnlyRegistryEvents(c.r.out)
       /\ \A b \in GeneralInputs : LET g == GeneralCase(b) IN
              (~g.short /\ (~g.matches \/ ~(g.isFollowUp \/ g.isDelayResp))) =>
                  SyncUntouched(g.r) /\ OnlyRegistryEvents(g.r.out))

\* A locked client has just handled a filtered datagram: the registry has
\* taken its value and notified it, the lock and the exchange stand.
FilteredWhileLocked ==
    /\ sync /\ completions = 1 /\ req_seq = 1 /\ immediates = 0
    /\ ptpMaster # NoMaster
    /\ \E v \in Registry : v # ConfiguredValue
    /\ emitted = << << RegistryEvent, Registry >> >>

\* One packet in both encodings: the same message kind, filter match, source
\* identity, sequence, two-step flag, length class (no header, header only,
\* one byte short of the timestamp, timestamp present) and timestamp.  The
\* legacy packet carries port 0, which the modern identity always ends in.
Kinds == { "sync", "delay_req", "follow_up", "delay_resp" }
LenClasses == { "short", "header", "almost", "full" }

KindV1(k) ==
    CASE k = "sync" -> MSG_SYNC [] k = "delay_req" -> MSG_DELAY_REQ
      [] k = "follow_up" -> MSG_FOLLOW_UP [] k = "delay_resp" -> MSG_DELAY_RESP

KindV2(k) ==
    CASE k = "sync" -> V2_SYNC [] k = "delay_req" -> V2_DELAY_REQ
      [] k = "follow_up" -> V2_FOLLOW_UP [] k = "delay_resp" -> V2_DELAY_RESP

LenOf(c, tsLen) ==
    CASE c = "short" -> HEADER_LEN - 1 [] c = "header" -> HEADER_LEN
      [] c = "almost" -> tsLen - 1 [] c = "full" -> tsLen

Corresponding(k, match, source, seq, twoStep, c, ts) ==
    [ v1 |-> [ V1Buf(LenOf(c, V1_TS_LEN),
                     IF match THEN V1Configured ELSE encodeSubdomain(NameDFL),
                     KindV1(k), source, seq, IF twoStep THEN FLAG_ASSIST ELSE 0, ts)
                 EXCEPT !.sourcePortId = 0 ],
      v2 |-> V2Buf(LenOf(c, V2_TS_LEN), KindV2(k), V2_VERSION,
                   IF match THEN DefaultDomain ELSE DefaultDomain + 1,
                   IF twoStep THEN V2_TWO_STEP ELSE 0, source, seq, ts) ]

\* Syncs in every variation, and one packet of each other kind per filter
\* outcome, for the event socket; Follow_Ups and Delay_Resps in every
\* variation, and one of each other kind, for the general socket.
CorrespondingEvents ==
    { Corresponding("sync", match, source, seq, twoStep, c, V2Stamp) :
        match \in BOOLEAN, source \in { SourceA, SourceB }, seq \in { SyncSeq, SyncSeq + 1 },
        twoStep \in BOOLEAN, c \in LenClasses }
    \cup { Corresponding(k, match, SourceA, SyncSeq, FALSE, "full", V2Stamp) :
             k \in Kinds \ { "sync" }, match \in BOOLEAN }

CorrespondingGenerals ==
    { Corresponding(k, match, SourceA, seq, FALSE, c, ts) :
        k \in { "follow_up", "delay_resp" }, match \in BOOLEAN, seq \in Seqs,
        c \in LenClasses, ts \in V2Stamps }
    \cup { Corresponding(k, match, SourceA, SyncSeq, FALSE, "full", V2Stamp) :
             k \in { "sync", "delay_req" }, match \in BOOLEAN }

\* The address a master's packets come from.
AddressOf(source) == [ address |-> IF source = SourceA THEN AddressA ELSE AddressB ]

\* What the claim compares of a handler's result: the engine's fields and the
\* notifications other than the registry's.
EngineView(r) ==
    [ sync |-> r.sync, sync_seq |-> r.sync_seq, req_seq |-> r.req_seq,
      lastSync |-> r.lastSync, immediates |-> r.immediates, sends |-> r.sends,
      lastDelayReq |-> r.lastDelayReq, syncTimeout |-> r.syncTimeout, timers |-> r.timers,
      ptpMaster |-> r.ptpMaster, ptpMasterAddress |-> r.ptpMasterAddress,
      ts1 |-> r.ts1, offset |-> r.offset,
      out |-> SelectSeq(r.out, LAMBDA e : e[1] \notin { "subdomains", "domains" }) ]

LockedAfterOwnRequest ==
    /\ sync => lastDelayReq # << >>
    /\ (req_seq = 0 /\ lastDelayReq = << >>) => completions = 0

\* C32: while the two-step exchange of a fresh client is in flight (its
\* Follow_Up accepted, its Delay_Resp not yet arrived), no Sync that passes
\* the filter replaces the ts1 taken at the exchange's Sync.
InFlightReceiveTimeKept ==
    scenario.phase \in { "fu", "req2" } =>
        \A in \in EventInputs : LET c == EventCase(in) IN
            AcceptedSync(c) => c.r.ts1 = ts1

\* C33: once the Delay_Resp of an exchange has been accepted, and until a
\* new Delay_Req is sent, a further Delay_Resp carrying the request's
\* sequence leaves the offset as it is and emits no ptp_time_synced.
OneUpdatePerDelayReq ==
    (scenario.phase \in { "done1", "done2" } /\ immediates = 0 /\ sends = 0) =>
        \A b \in GeneralInputs : LET g == GeneralCase(b) IN
            MatchingDelayResp(g) =>
                g.r.offset = offset /\ Count(g.r.out, "ptp_time_synced") = 0

\* The notifications that carry the lock state, and the value one carries.
LockNotices(out) ==
    SelectSeq(out, LAMBDA e : e[1] \in { "sync_changed", "ptp_master_changed" })

LockValue(e) == IF e[1] = "sync_changed" THEN e[2] ELSE e[4]

\* C34 (as amended): every step that changes the lock state emits a
\* notification that carries it, sync_changed or ptp_master_changed, and the
\* last lock state a step notifies is the one it leaves; so an observer of
\* both notifications holds the value of is_synced after every step.  Before
\* destroy a sync_changed is emitted only by a step that flips the lock
\* state, with the new value; a master change that unlocks is notified by
\* ptp_master_changed alone.
LockNoticesTrackLock ==
    [][ LET notices == LockNotices(emitted')
        IN /\ sync' # sync => Len(notices) > 0
           /\ Len(notices) > 0 => LockValue(notices[Len(notices)]) = sync'
           /\ ~destroyed' =>
                  \A i \in 1..Len(emitted') :
                      emitted'[i][1] = "sync_changed" =>
                          emitted'[i][2] = sync' /\ sync' # sync
           /\ ptpMaster' # ptpMaster =>
                  /\ ~sync' /\ Count(emitted', "sync_changed") = 0
                  /\ Len(notices) = 1 /\ notices[1][1] = "ptp_master_changed" ]_vars

\* The Sync of another master has unlocked a locked client: the step emitted
\* ptp_master_changed carrying false and no sync_changed, after the one
\* sync_changed(true) of the exchange.
UnlockedByMasterChange ==
    /\ scenario.phase = "changed" /\ scenario.trues = 1 /\ completions = 1
    /\ ~sync /\ ~destroyed
    /\ Count(emitted, "sync_changed") = 0
    /\ LockNotices(emitted) = << << "ptp_master_changed", ptpMaster, ptpMasterAddress, FALSE >> >>

\* C34 (as stated): before destroy, every step that changes the lock state
\* emits sync_changed with the new value.
SyncChangedTracksLock ==
    [][ (sync' # sync /\ ~destroyed') => CountValue(emitted', "sync_changed", sync') = 1 ]_vars

\* No Follow_Up the network can deliver defers a Delay_Req in this state.
NoFollowUpDefers ==
    \A b \in GeneralInputs : LET g == GeneralCase(b) IN
        g.isFollowUp => g.r.immediates = immediates

\* A fresh client's one-step Sync has deferred its Delay_Req, built or not.
OneStepSyncAnswered == scenario.phase \in { "sync1", "req1" }

\* C35: a Follow_Up defers no Delay_Req on a client that has accepted no
\* Sync yet, and none on a client whose last Sync was a one-step Sync that
\* has deferred its own Delay_Req.
FollowUpNeedsTwoStepSync ==
    /\ ptpMaster = NoMaster => NoFollowUpDefers
    /\ OneStepSyncAnswered => NoFollowUpDefers

\* No Delay_Resp the network can deliver completes an exchange in this state.
NoDelayRespCompletes ==
    \A b \in GeneralInputs : LET g == GeneralCase(b) IN
        g.isDelayResp => g.r.offset = offset /\ Count(g.r.out, "ptp_time_synced") = 0

\* The send of the last Delay_Req built has just failed.
LastSendFailed == sends = 0 /\ immediates = 0 /\ Count(emitted, "error") > 0

\* C36: while the completion callback of the last Delay_Req has not run, and
\* right after it has run with an error, so that t2 is not the send time of
\* that request, no Delay_Resp completes an exchange.
DelayRespNeedsConfirmedSend ==
    /\ sends > 0 => NoDelayRespCompletes
    /\ LastSendFailed => NoDelayRespCompletes

\* C37: once destroy() has been called no Delay_Req is handed to send(), the
\* request sequence and the other fields of the session stay as they are,
\* and no step emits an error or throws.
InertAfterDestroy ==
    [][ destroyed =>
            /\ sends' <= sends /\ lastDelayReq' = lastDelayReq
            /\ req_seq' = req_seq /\ sync_seq' = sync_seq
            /\ t1' = t1 /\ ts1' = ts1 /\ t2' = t2 /\ ts2' = ts2
            /\ offset' = offset /\ lastSync' = lastSync /\ sync' = sync
            /\ Count(emitted', "error") = 0
            /\ crashed' = crashed ]_vars

\* C38: a locked client has its lock timeout pending, due 2 x minSyncInterval
\* after the last completed exchange, and lastSync is not zero; and a locked
\* client becomes unlocked unless a further exchange completes.
LockGuardedByTimer ==
    /\ [](sync => /\ syncTimeout # NoTimer /\ syncTimeout \in timers
                  /\ syncTimeout = lastSync + 2 * minSyncInterval
                  /\ lastSync # 0)
    /\ \A n \in 0..MaxWork :
           (sync /\ completions = n) ~> (~sync \/ completions > n)

\* A locked client some time after its exchange, the timeout pending and not
\* yet due.
LockedTimerPending ==
    /\ sync /\ ~destroyed
    /\ now > lastSync /\ now < syncTimeout
    /\ timers = { syncTimeout }

\* C40: a Sync that passes the filter and carries the stored identity leaves
\* the stored identity and address and the lock state as they are and emits
\* no ptp_master_changed, whatever address it comes from; a step that emits
\* ptp_master_changed emits one, carrying the identity and address stored
\* after it, the address being the sender's; and no other step changes
\* either.  So ptp_master is the pair of the last ptp_master_changed.
MasterAddressOfLastChange ==
    /\ [](\A in \in EventInputs : LET c == EventCase(in) IN
              /\ (AcceptedSync(c) /\ c.source = ptpMaster) =>
                     /\ c.r.ptpMaster = ptpMaster
                     /\ c.r.ptpMasterAddress = ptpMasterAddress
                     /\ c.r.sync = sync
                     /\ Count(c.r.out, "ptp_master_changed") = 0
              /\ (AcceptedSync(c) /\ c.source # ptpMaster) =>
                     /\ c.r.ptpMasterAddress = c.address
                     /\ Count(c.r.out, "ptp_master_changed") = 1)
    /\ [][ IF Count(emitted', "ptp_master_changed") > 0
           THEN \A i \in 1..Len(emitted') :
                    emitted'[i][1] = "ptp_master_changed" =>
                        /\ emitted'[i][2] = ptpMaster'
                        /\ emitted'[i][3] = ptpMasterAddress'
           ELSE ptpMaster' = ptpMaster /\ ptpMasterAddress' = ptpMasterAddress ]_vars

\* A locked client whose master is known at one address, in a network that
\* delivers a Sync of that master from another address: the Sync is accepted
\* and the stored pair and the lock stand.
SameMasterOtherAddress ==
    /\ sync /\ completions = 1
    /\ ptpMaster # NoMaster /\ ptpMasterAddress = AddressA
    /\ \E in \in EventInputs : LET c == EventCase(in) IN
           /\ AcceptedSync(c) /\ c.source = ptpMaster /\ c.address = AddressB
           /\ c.r.ptpMasterAddress = AddressA /\ c.r.sync
           /\ c.r.sync_seq = c.sequence
           /\ Count(c.r.out, "ptp_master_changed") = 0

-----------------------------------------------------------------------------
(* Properties of the codec runs (SpecCodec) *)

ReqSequence(req) == IF proto = "v1" THEN req.buffer.sequenceId ELSE req.buffer.sequence

\* C14: req_seq always lies in 0..65535; a client that has handed no
\* Delay_Req to send() has req_seq 0, so its first request carries 1; the
\* last Delay_Req handed to send() carries req_seq; the deferred callback, and
\* no other step, changes req_seq, to req_seq + 1, or to 0 from 65535, and the
\* Delay_Req it builds carries the new value.
RequestSequence ==
    /\ [](/\ req_seq \in 0..(SEQ_MOD - 1)
          /\ ~destroyed =>
                 /\ lastDelayReq = << >> => req_seq = 0
                 /\ lastDelayReq # << >> => ReqSequence(lastDelayReq[1]) = req_seq)
    /\ [][ IF immediates' < immediates
           THEN /\ req_seq' = (IF req_seq = SEQ_MOD - 1 THEN 0 ELSE req_seq + 1)
                /\ ~destroyed =>
                       /\ lastDelayReq' # << >>
                       /\ ReqSequence(lastDelayReq'[1]) = req_seq'
           ELSE req_seq' = req_seq /\ lastDelayReq' = lastDelayReq ]_vars

\* The sequence has wrapped: the last Delay_Req carries 0 and one more is
\* deferred.
RequestSequenceWrapped ==
    /\ req_seq = 0 /\ immediates = 1
    /\ lastDelayReq # << >> /\ ReqSequence(lastDelayReq[1]) = 0

\* C15: for every s and ns normalizePtpTime was applied to, the result
\* (s', ns') has 0 <= ns' < 1e9 and s' * 1e9 + ns' = s * 1e9 + ns, stated as
\* (s' - s) * 1e9 = ns - ns'.
NormalizeCorrect ==
    result.kind = "time" =>
        /\ result.time[2] \in 0..(NS_PER_S - 1)
        /\ (result.time[1] - call.s) * NS_PER_S = call.ns - result.time[2]

\* An exact negative multiple of 1e9 was normalised: two seconds borrowed,
\* no nanoseconds left.
NormalizedNegativeMultiple ==
    /\ result.kind = "time"
    /\ call.ns = -2 * NS_PER_S
    /\ result.time = << call.s - 2, 0 >>

\* C17: once the constructor has run with an interface that is not a dotted
\* quad of octets or, legacy client, with a subdomain that is empty, longer
\* than 15 characters or not printable ASCII, it has thrown, and no socket is
\* bound, no group joined, no Delay_Req sent or deferred and nothing emitted.
ConstructionErrorsFatal ==
    LET badIface == ~(Len(call.iface) = 4 /\ \A i \in 1..Len(call.iface) : call.iface[i] \in 0..255)
        badSubdomain == \/ Len(call.subdomain) = 0
                        \/ Len(call.subdomain) > 15
                        \/ \E i \in 1..Len(call.subdomain) : call.subdomain[i] \notin 32..126
    IN (call.fn = "construct" /\ result # NoResult
            /\ (badIface \/ (call.proto = "v1" /\ badSubdomain))) =>
           /\ result = Thrown
           /\ bound = { } /\ joined = { }
           /\ lastDelayReq = << >> /\ sends = 0 /\ immediates = 0
           /\ emitted = << >>

\* The constructor threw on a subdomain of 16 characters given with a valid
\* interface.
ThrownOnLongSubdomain ==
    /\ result = Thrown /\ call.proto = "v1"
    /\ call.iface = << 192, 168, 1, 10 >>
    /\ Len(call.subdomain) = 16
    /\ bound = { } /\ emitted = << >>

\* C18: the modern constructor throws its TypeError only on the interface,
\* never on the domain; the domain it configures for a domain d, given in tenths, is an
\* integer in 0..127: round(d) when 0 <= d <= 127, otherwise 0.
DomainClamped ==
    (call.fn = "construct" /\ call.proto = "v2" /\ result # NoResult) =>
        /\ result = Thrown <=>
               ~(Len(call.iface) = 4 /\ \A i \in 1..Len(call.iface) : call.iface[i] \in 0..255)
        /\ result = Constructed =>
               /\ ptp_domain \in 0..127
               /\ ptp_domain = (IF call.domainTenths >= 0 /\ call.domainTenths <= 1270
                                THEN (call.domainTenths + 5) \div 10 ELSE 0)

\* Domain 127.1 was given: the client is constructed with domain 0 and has
\* joined on both sockets.
DomainOutOfRangeClamped ==
    /\ call.fn = "construct" /\ call.proto = "v2" /\ call.domainTenths = 1271
    /\ result = Constructed /\ ptp_domain = 0
    /\ Cardinality(joined) = 2

\* C19: the resolver gives domains 0, 1, 2, 3 four distinct addresses,
\* 224.0.1.129 to 224.0.1.132 in this order, and every domain 4..127 the
\* address of domain 0; every membership of a legacy client is for
\* 224.0.1.129 whatever its subdomain, every membership of a modern client is
\* for the address resolved for its configured domain, and both sockets of a
\* client join the same group.
MulticastResolution ==
    /\ \A d \in 0..3 : ptpMulticastAddr(d) = << 224, 0, 1, 129 + d >>
    /\ Cardinality({ ptpMulticastAddr(d) : d \in 0..3 }) = 4
    /\ \A d \in 4..127 : ptpMulticastAddr(d) = ptpMulticastAddr(0)
    /\ \A j \in joined :
           j[2] = (IF proto = "v2" /\ ptp_domain \in 1..3
                   THEN << 224, 0, 1, 129 + ptp_domain >>
                   ELSE << 224, 0, 1, 129 >>)
    /\ \A j, k \in joined : j[2] = k[2]

\* A legacy client constructed for the subdomain "_DFLTX" has joined the
\* fixed group on both sockets.
LegacyJoinedFixedGroup ==
    /\ call.fn = "construct" /\ proto = "v1" /\ result = Constructed
    /\ StripNul(subdomainBuf) = NameDFLTX
    /\ joined = { << "event", << 224, 0, 1, 129 >>, addr >>,
                  << "general", << 224, 0, 1, 129 >>, addr >> }

\* C20: the last Delay_Req a modern client handed to send() carries the
\* configured domain in its domain byte and went out on the event socket to
\* port 319 of the group resolved for the configured domain, which is the
\* group of every membership of the client.
DelayReqDomain ==
    (proto = "v2" /\ lastDelayReq # << >>) =>
        /\ lastDelayReq[1].buffer.domain = ptp_domain
        /\ lastDelayReq[1].socket = "event"
        /\ lastDelayReq[1].port = 319
        /\ lastDelayReq[1].address = (IF ptp_domain \in 1..3
                                      THEN << 224, 0, 1, 129 + ptp_domain >>
                                      ELSE << 224, 0, 1, 129 >>)
        /\ \A j \in joined : j[2] = lastDelayReq[1].address

\* A modern client of domain 2 has sent its first Delay_Req to 224.0.1.131.
DelayReqOnDomainTwo ==
    /\ proto = "v2" /\ ptp_domain = 2 /\ req_seq = 1
    /\ lastDelayReq # << >>
    /\ lastDelayReq[1].buffer.domain = 2
    /\ lastDelayReq[1].address = << 224, 0, 1, 131 >>
    /\ Cardinality(joined) = 2

\* The bytes of b at the offsets (from 0) outside named are all zero.
ZeroOutside(b, named) == \A i \in 1..Len(b) : (i - 1) \notin named => b[i] = 0

\* C21 (as amended): the header read back from the last Delay_Req handed to
\* send() has the Delay_Req message type, the sequence that was set and the
\* configured subdomain (legacy, with control value 1) or domain (modern,
\* with version 2 and the length field 52); every other byte of the buffer is
\* zero.
DelayReqRoundTrip ==
    (lastDelayReq # << >> /\ ~destroyed) =>
        LET b == lastDelayReq[1].bytes
            v == lastDelayReq[1].buffer
        IN IF proto = "v1"
           THEN /\ Len(b) = 44
                /\ headerV1(b).messageType = 2
                /\ headerV1(b).control = 1
                /\ headerV1(b).sequenceId = req_seq
                /\ headerV1(b).subdomain = StripNul(subdomainBuf)
                /\ ZeroOutside(b, (0..15) \cup { 16, 26, 27, 28 })
                /\ v.sequenceId = headerV1(b).sequenceId
                /\ v.messageType = headerV1(b).messageType
           ELSE /\ Len(b) = 52
                /\ headerV2(b).type = 1
                /\ headerV2(b).sequence = req_seq
                /\ headerV2(b).domain = ptp_domain
                /\ headerV2(b).version = 2
                /\ headerV2(b).length = 52
                /\ ZeroOutside(b, { 0, 1, 2, 3, 4, 30, 31 })
                /\ v.sequence = headerV2(b).sequence
                /\ v.domain = headerV2(b).domain

\* A legacy client configured for a subdomain of 15 characters has sent the
\* request with the last sequence before the wrap.
DelayReqRoundTripDone ==
    /\ proto = "v1" /\ Len(StripNul(subdomainBuf)) = 15
    /\ req_seq = 65535 /\ immediates = 0
    /\ lastDelayReq # << >>
    /\ headerV1(lastDelayReq[1].bytes).sequenceId = 65535

\* C21 (as stated): ... message type, control value (legacy), sequence and
\* subdomain/domain as set, with every other byte zero.
DelayReqRoundTripOthersZero ==
    (lastDelayReq # << >> /\ ~destroyed) =>
        LET b == lastDelayReq[1].bytes
        IN IF proto = "v1"
           THEN /\ headerV1(b).messageType = 2
                /\ headerV1(b).control = 1
                /\ headerV1(b).sequenceId = req_seq
                /\ headerV1(b).subdomain = StripNul(subdomainBuf)
                /\ ZeroOutside(b, (0..15) \cup { 16, 26, 27, 28 })
           ELSE /\ headerV2(b).type = 1
                /\ headerV2(b).sequence = req_seq
                /\ headerV2(b).domain = ptp_domain
                /\ ZeroOutside(b, { 0, 4, 30, 31 })

\* C22: once the constructor has run with valid arguments and a bind of
\* port 319 or 320 that was attempted has failed, the caller holds a
\* constructed instance, and every failed bind has been, or is about to be,
\* reported to it with an error notification.
BindFailureSurfaced ==
    (call.fn = "construct" /\ result # NoResult /\ ~construct(call).thrown
         /\ \E i \in bindCalled(call.binds) : call.binds[i] # "ok") =>
        /\ result = Constructed
        /\ \A i \in bindCalled(call.binds) :
               call.binds[i] # "ok" =>
                   \/ \E e \in bindErrors : e[1] = Sockets[i]
                   \/ Count(emitted, "error") = 1

\* C27: an accepted Delay_Resp moves the offset by ((ts1 - t1) - (ts2 - t2)) / 2
\* to the nanosecond, whatever the sign and the magnitude of that delta: the
\* new offset is the old one plus the delta, and the seconds and the remainder
\* it was split into add up to the delta, the remainder having the delta's
\* sign and a magnitude below 1e9.
OffsetUpdateExact ==
    (call.fn = "delay_resp" /\ result.kind = "completed") =>
        LET d == halfDelta(ts2)
            split == deltaSplit(ts2)
        IN /\ offset = normalizePtpTime(result.time[1] + d.whole, result.time[2] + d.part)
           /\ normalizePtpTime(split.deltaS, split.deltaNS) = << d.whole, d.part >>
           /\ IF d.whole >= 0 THEN split.deltaNS >= 0 ELSE split.deltaNS <= 0
           /\ split.deltaNS > -NS_PER_S /\ split.deltaNS < NS_PER_S

\* The one-way delay of the exchange just completed, the same in both
\* directions: half of what the four timestamps leave for the two passages,
\* (ts1 - t1) + (ts2 - t2), as << seconds, nanoseconds >>.
OneWayDelay ==
    LET s == (ts1[1] - t1[1]) + (ts2[1] - t2[1])
        ns == (ts1[2] - t1[2]) + (ts2[2] - t2[2])
    IN normalizePtpTime(s \div 2, (s % 2) * (NS_PER_S \div 2) + Half(ns))

\* The master's time when the Sync of the exchange arrived: its send time
\* and the one-way delay.
MasterAtSync ==
    normalizePtpTime(t1[1] + OneWayDelay[1], t1[2] + OneWayDelay[2])

\* The corrected time of that moment under the offset the exchange has left:
\* the monotonic reading, which is ts1 and the offset ts1 was taken with,
\* minus the new offset.
CorrectedAtSync(before) ==
    normalizePtpTime(ts1[1] + before[1] - offset[1], ts1[2] + before[2] - offset[2])

\* C39: after the Delay_Resp of a clean exchange with the same delay both
\* ways, the corrected time equals the master's time, whatever the two
\* clocks read before.
ExchangeConverges ==
    (call.fn = "delay_resp" /\ result.kind = "completed") =>
        CorrectedAtSync(result.time) = MasterAtSync

====
